---- MODULE Spec2Model ----
(***************************************************************************)
(* eventshub: the event repository (service/v1/rest/database.go), the      *)
(* temporal codec (service/v1/rest/utils.go), the content hash of an event *)
(* (EventData.ToString / Sha256) and the request handlers                  *)
(* (service/v1/rest/handlers.go), as a state machine.                      *)
(*                                                                         *)
(* The specifications share the variables:                                 *)
(*   Spec      sequential calls of the repository's operations             *)
(*   SpecConc  InsertEvent calls of concurrent request goroutines, one     *)
(*             SQL statement per step                                      *)
(*   SpecHTTP  requests served by the handlers, one request per step       *)
(*   SpecAuth  credentials, logins and the tokens they issue               *)
(*   SpecLife  main, the shutdown channel, Stop and the kill endpoint      *)
(*   SpecLifeFair  SpecLife with the goroutines scheduled and time passing *)
(*   SpecRepo  the repository from NewSQLiteRepository on a new database   *)
(*   SpecWire  the configured server serving requests on every route       *)
(*   SpecCodec the temporal codec applied to calendar moments              *)
(*   SpecSum   inserts and checksum requests of one client                 *)
(*   SpecFault InsertEvent without the zone database or the status append  *)
(*   SpecPaths every handler, the paths after a failed query or signing    *)
(*             included                                                    *)
(*   SpecUpload  the XML import posting its events to a running server     *)
(***************************************************************************)
EXTENDS Integers, Sequences, FiniteSets

VARIABLES
    events,     \* rows of table events (a set of records, keyed by id)
    status,     \* rows of table status, in insertion (ROWID) order
    accepted,   \* history: per UUID, the payload InsertEvent last accepted and what it returned
    call,       \* history: the last repository operation, its result and the state before it
    now,        \* time.Now().Unix()
    procs,      \* SpecConc: the request goroutines running InsertEvent
    http,       \* SpecHTTP, SpecAuth: the last request and the response written for it
    users,      \* rows of table users, in insertion (ROWID) order
    issued,     \* SpecAuth: the tokens loginHandler has written to clients
    life,       \* SpecLife: main, its goroutines, the http.Server and its timers
    sigs,       \* SpecLife: the buffered channel sigs
    kills,      \* SpecLife: the request goroutines running killserver
    tables,     \* the tables that exist in the database
    sums,       \* history: per UUID, the digest the checksum endpoint last answered with
    parser      \* the XML import client: its token, its position, the answers it got

authVars == <<users, issued>>

lifeVars == <<life, sigs, kills>>

clientVars == <<sums, parser>>

vars ==
    <<events, status, accepted, call, now, procs, http, authVars, lifeVars, tables,
      clientVars>>

-----------------------------------------------------------------------------
(* Bounds of the model *)

MaxStatus == 4      \* rows of table status
MaxID == 3          \* largest rowid the store hands out
MaxTime == 3        \* clock ticks after T0

-----------------------------------------------------------------------------
(* Temporal codec: time.Date(...).Unix() and time.Unix(t, 0).In(loc), both *)
(* in Europe/Warsaw (CET = UTC+1, CEST = UTC+2 between the last Sundays of *)
(* March and October, switching at 01:00 UTC).                             *)

secondsPerMinute == 60
secondsPerHour == 3600
secondsPerDay == 86400
CET == 3600
CEST == 7200

\* the calendar years the zone rule above is evaluated for
ZoneYears == 2022..2026

isLeap(y) == (y % 4 = 0 /\ y % 100 # 0) \/ y % 400 = 0

daysBefore(m) == <<0, 31, 59, 90, 120, 151, 181, 212, 243, 273, 304, 334>>[m]

leapsBefore(y) == ((y - 1) \div 4) - ((y - 1) \div 100) + ((y - 1) \div 400)

\* days from 1970-01-01 to January 1st of year y
daysSinceEpoch(y) == 365 * (y - 1970) + leapsBefore(y) - leapsBefore(1970)

\* days from 1970-01-01 to the given day; month in 1..12, day unrestricted
daysOf(y, m, d) ==
    daysSinceEpoch(y) + daysBefore(m) + (IF isLeap(y) /\ m >= 3 THEN 1 ELSE 0) + d - 1

\* 0 = Sunday; 1970-01-01 was a Thursday
weekday(days) == (days + 4) % 7

lastSunday(y, m) == CHOOSE d \in 25..31 : weekday(daysOf(y, m, d)) = 0

\* the transitions of the zone, tabulated per year
dstStartOf ==
    [y \in ZoneYears |-> daysOf(y, 3, lastSunday(y, 3)) * secondsPerDay + secondsPerHour]
dstEndOf ==
    [y \in ZoneYears |-> daysOf(y, 10, lastSunday(y, 10)) * secondsPerDay + secondsPerHour]

dstStart(y) == dstStartOf[y]
dstEnd(y) == dstEndOf[y]

yearOfDays(days) ==
    CHOOSE y \in ZoneYears : daysSinceEpoch(y) <= days /\ days < daysSinceEpoch(y + 1)

zoneIn(utc, y) ==
    IF utc < dstStart(y)
    THEN [offset |-> CET, start |-> dstEnd(y - 1), end |-> dstStart(y)]
    ELSE IF utc < dstEnd(y)
    THEN [offset |-> CEST, start |-> dstStart(y), end |-> dstEnd(y)]
    ELSE [offset |-> CET, start |-> dstEnd(y), end |-> dstStart(y + 1)]

\* Location.lookup: the zone in force at the UTC instant, with the bounds of its period
lookup(utc) == zoneIn(utc, yearOfDays(utc \div secondsPerDay))

\* the fields taken as if UTC; hours beyond the day carry into the day
absSeconds(y, m, d, h, mi) ==
    daysOf(y, m, d + (h \div 24)) * secondsPerDay
    + (h % 24) * secondsPerHour + mi * secondsPerMinute

\* subtract the offset of zone z, the first guess; when z does not cover the
\* result, the offset of the zone at that result
unixIn(unix, z) ==
    unix - (IF unix - z.offset < z.start \/ unix - z.offset >= z.end
            THEN lookup(unix - z.offset).offset
            ELSE z.offset)

unixOfAbs(unix) == unixIn(unix, lookup(unix))

\* time.Date: normalise the month into the year and minutes into hours, take
\* the fields as if UTC, then subtract the zone offset
dateUnix(year, month, day, hour, minute) ==
    unixOfAbs(absSeconds(year + ((month - 1) \div 12), ((month - 1) % 12) + 1, day,
                         hour + (minute \div 60), minute % 60))

monthOfDay(y, yday) ==
    CHOOSE m \in 1..12 :
        /\ daysOf(y, m, 1) - daysSinceEpoch(y) <= yday
        /\ (m = 12 \/ yday < daysOf(y, m + 1, 1) - daysSinceEpoch(y))

dateInMonth(y, m, days, secs) ==
    [Type |-> "DateTime", Year |-> y, Month |-> m,
     Day |-> days - daysOf(y, m, 1) + 1,
     Hour |-> secs \div secondsPerHour,
     Minute |-> (secs % secondsPerHour) \div secondsPerMinute]

dateInYear(y, days, secs) ==
    dateInMonth(y, monthOfDay(y, days - daysSinceEpoch(y)), days, secs)

\* Year, Month, Day, Hour, Minute of the local wall clock
absDate(local) ==
    dateInYear(yearOfDays(local \div secondsPerDay), local \div secondsPerDay,
               local % secondsPerDay)

unixDateUTC(t) == absDate(t)

\* time.Unix(t, 0).In(loc)
unixDate(t) == absDate(t + lookup(t).offset)

-----------------------------------------------------------------------------
(* Data model (EventData, DateTime) and the payloads the clients submit *)

DateTimeStructName == "DateTime"
EventDataStructName == "EventData"
VERSION == "1.1.0"

UUIDs == {"u1", "u2"}

NoEvent == [Type |-> "none"]

DT(type, y, mo, d, h, mi) ==
    [Type |-> type, Year |-> y, Month |-> mo, Day |-> d, Hour |-> h, Minute |-> mi]

Base(u) ==
    [Type |-> EventDataStructName, ID |-> 0, Version |-> "1.1.1", UUID |-> u,
     Title |-> "Standup",
     Start |-> DT(DateTimeStructName, 2024, 2, 13, 9, 0),
     End |-> DT(DateTimeStructName, 2024, 2, 13, 9, 30),
     Address |-> "Warszawa", Info |-> "Likes beer", Reminder |-> 7,
     Done |-> FALSE, Important |-> TRUE, Urgent |-> FALSE, Source |-> "APP"]

\* the payloads that differ from Base(u) in exactly one field of the event
OneFieldVariants(u) ==
    {[Base(u) EXCEPT !.Version = "1.1.2"],
     [Base(u) EXCEPT !.Title = "Retro"],
     [Base(u) EXCEPT !.Start = DT(DateTimeStructName, 2024, 2, 13, 8, 0)],
     [Base(u) EXCEPT !.End = DT(DateTimeStructName, 2024, 2, 13, 12, 0)],
     [Base(u) EXCEPT !.Address = "Lodz"],
     [Base(u) EXCEPT !.Info = "Likes flowers"],
     [Base(u) EXCEPT !.Reminder = 15],
     [Base(u) EXCEPT !.Done = TRUE],
     [Base(u) EXCEPT !.Important = FALSE],
     [Base(u) EXCEPT !.Urgent = TRUE],
     [Base(u) EXCEPT !.Source = "WEB"]}

\* payloads as other clients encode them: a client-side id, no __type__ on the
\* event, the XML import's "datetime" discriminator (xmlparser/utils.go:28),
\* a moment inside the spring-forward gap of 2024-03-31
WireVariants(u) ==
    {[Base(u) EXCEPT !.ID = 7],
     [Base(u) EXCEPT !.Type = ""],
     [Base(u) EXCEPT !.Start = DT("datetime", 2024, 2, 13, 9, 0)],
     [Base(u) EXCEPT !.Start = DT(DateTimeStructName, 2024, 3, 31, 2, 30),
                     !.End = DT(DateTimeStructName, 2024, 3, 31, 4, 0)]}

Payloads ==
    {Base("u1")} \cup OneFieldVariants("u1") \cup WireVariants("u1")
    \cup {Base("u2"),
          [Base("u2") EXCEPT !.Start = DT(DateTimeStructName, 2024, 2, 13, 12, 0),
                             !.End = DT(DateTimeStructName, 2024, 2, 13, 12, 0)]}

\* the moments the range queries are asked with
QueryMoments ==
    {DT(DateTimeStructName, 2024, 2, 13, hm[1], hm[2]) :
        hm \in {<<0, 0>>, <<9, 0>>, <<9, 30>>, <<12, 0>>, <<23, 59>>}}

\* the moment the server is started
StartMoment == DT(DateTimeStructName, 2024, 2, 13, 7, 0)

Moments == {e.Start : e \in Payloads} \cup {e.End : e \in Payloads}
           \cup QueryMoments \cup {StartMoment}

\* the codec on the moments and timestamps of the model, tabulated
UnixOf == [d \in Moments |-> dateUnix(d.Year, d.Month, d.Day, d.Hour, d.Minute)]

Timestamps == {UnixOf[d] : d \in Moments}

DateTimeOf == [t \in Timestamps |-> unixDate(t)]

dateTimeToUnix(d) == UnixOf[d]

unixToDateTime(t) == DateTimeOf[t]

QueryTimes == {dateTimeToUnix(d) : d \in QueryMoments}

T0 == dateTimeToUnix(StartMoment)

-----------------------------------------------------------------------------
(* Conversions between a payload and a row of table events *)

Btoi(b) == IF b THEN 1 ELSE 0

Itob(i) == i # 0

\* the column values insertEvent and updateEvent bind for event e
Columns(e) ==
    [version |-> e.Version, uuid |-> e.UUID, title |-> e.Title,
     start |-> dateTimeToUnix(e.Start), end |-> dateTimeToUnix(e.End),
     address |-> e.Address, info |-> e.Info, reminder |-> e.Reminder,
     done |-> Btoi(e.Done), important |-> Btoi(e.Important), urgent |-> Btoi(e.Urgent),
     source |-> e.Source]

Row(id, c) ==
    [id |-> id, version |-> c.version, uuid |-> c.uuid, title |-> c.title,
     start |-> c.start, end |-> c.end, address |-> c.address, info |-> c.info,
     reminder |-> c.reminder, done |-> c.done, important |-> c.important,
     urgent |-> c.urgent, source |-> c.source]

convertRawEventRecordToEventData(r) ==
    [Type |-> EventDataStructName, ID |-> r.id, Version |-> r.version, UUID |-> r.uuid,
     Title |-> r.title, Start |-> unixToDateTime(r.start), End |-> unixToDateTime(r.end),
     Address |-> r.address, Info |-> r.info, Reminder |-> r.reminder,
     Done |-> Itob(r.done), Important |-> Itob(r.important), Urgent |-> Itob(r.urgent),
     Source |-> r.source]

\* %v of a DateTime prints the embedded Common and the five numbers
FormatDateTime(d) == <<d.Type, d.Year, d.Month, d.Day, d.Hour, d.Minute>>

\* the values ToString formats, in order
ToString(e) ==
    <<e.Version, e.UUID, e.Title, FormatDateTime(e.Start), FormatDateTime(e.End),
      e.Address, e.Info, e.Reminder, e.Done, e.Important, e.Urgent>>

\* SHA-256 of the string, taken to be collision free
Sha256(e) == ToString(e)

-----------------------------------------------------------------------------
(* The repository: each operation as a function of the tables.  An          *)
(* operation's result carries the tables after it, what it returns and the *)
(* SQL statements it executed.                                             *)

RowsByUUID(ev, u) == {r \in ev : r.uuid = u}

\* rows.Next() on a scan of the table: the row with the smallest rowid
FirstRow(rows) == CHOOSE r \in rows : \A q \in rows : r.id <= q.id

RECURSIVE InRowidOrder(_)
InRowidOrder(rows) ==
    IF rows = {} THEN <<>>
    ELSE LET r == FirstRow(rows) IN <<r>> \o InRowidOrder(rows \ {r})

\* id INTEGER PRIMARY KEY: one more than the largest rowid in the table
NewRowID(ev) ==
    IF ev = {} THEN 1
    ELSE (CHOOSE i \in {r.id : r \in ev} : \A r \in ev : r.id <= i) + 1

updateStatus(st, t) == Append(st, [timestamp |-> t, version |-> VERSION])

\* mutant: the id of the new row is not copied into the returned event
insertEventKeepsPayloadID(ev, st, t, e) ==
    [events |-> ev \cup {Row(NewRowID(ev), Columns(e))},
     status |-> updateStatus(st, t),
     ret |-> e,
     err |-> "nil",
     sql |-> <<"INSERT events", "INSERT status">>]

insertEvent(ev, st, t, e) ==
    LET id == NewRowID(ev) IN
    [events |-> ev \cup {Row(id, Columns(e))},
     status |-> updateStatus(st, t),
     ret |-> [e EXCEPT !.ID = id],
     err |-> "nil",
     sql |-> <<"INSERT events", "INSERT status">>]

\* mutant: the UPDATE has no WHERE clause
updateEventNoWhere(ev, st, t, e) ==
    [events |-> {Row(r.id, [Columns(e) EXCEPT !.uuid = r.uuid]) : r \in ev},
     status |-> updateStatus(st, t),
     ret |-> e,
     err |-> "nil",
     sql |-> <<"UPDATE events", "INSERT status">>]

\* UPDATE events SET ... WHERE uuid = ?
updateEvent(ev, st, t, e) ==
    [events |-> {IF r.uuid = e.UUID THEN Row(r.id, Columns(e)) ELSE r : r \in ev},
     status |-> updateStatus(st, t),
     ret |-> e,
     err |-> "nil",
     sql |-> <<"UPDATE events", "INSERT status">>]

AfterSelect(res) == [res EXCEPT !.sql = <<"SELECT events">> \o @]

\* mutant: the lookup by UUID is skipped
InsertEventNoLookup(ev, st, t, e) == AfterSelect(insertEvent(ev, st, t, e))

InsertEvent(ev, st, t, e) ==
    LET rows == RowsByUUID(ev, e.UUID) IN
    IF rows # {}
    THEN LET dbEvent == convertRawEventRecordToEventData(FirstRow(rows))
             e1 == [e EXCEPT !.ID = dbEvent.ID]
         IN IF Sha256(dbEvent) = Sha256(e1)
            THEN [events |-> ev, status |-> st, ret |-> e1, err |-> "nil",
                  sql |-> <<"SELECT events">>]
            ELSE AfterSelect(updateEvent(ev, st, t, e1))
    ELSE AfterSelect(insertEvent(ev, st, t, e))

\* DELETE FROM events WHERE uuid = ?; the result of Exec is dropped
DeleteEvent(ev, e) ==
    [events |-> ev \ RowsByUUID(ev, e.UUID), ok |-> TRUE, err |-> "nil",
     sql |-> <<"DELETE events">>]

ConvertAll(rows) ==
    LET s == InRowidOrder(rows) IN
    [i \in 1..Len(s) |-> convertRawEventRecordToEventData(s[i])]

GetAllEvents(ev) == ConvertAll(ev)

\* mutant: strict comparisons
GetEventsByTimeRangeStrict(ev, start, end) ==
    ConvertAll({r \in ev : r.end > start /\ r.start < end})

\* SELECT * FROM events WHERE end >= ? AND start <= ?
GetEventsByTimeRange(ev, start, end) ==
    ConvertAll({r \in ev : r.end >= start /\ r.start <= end})

GetEventByUUID(ev, uuid) ==
    LET rows == RowsByUUID(ev, uuid) IN
    IF rows # {} THEN convertRawEventRecordToEventData(FirstRow(rows))
    ELSE [Type |-> EventDataStructName, ID |-> 0, Version |-> "", UUID |-> "",
          Title |-> "", Start |-> DT("", 0, 0, 0, 0, 0), End |-> DT("", 0, 0, 0, 0, 0),
          Address |-> "", Info |-> "", Reminder |-> 0,
          Done |-> FALSE, Important |-> FALSE, Urgent |-> FALSE, Source |-> ""]

\* SELECT timestamp, version FROM status WHERE ROWID IN (SELECT max(ROWID) FROM status)
GetStatus(st) ==
    IF st = <<>>
    THEN [Timestamp |-> 0, Version |-> "", Success |-> TRUE, err |-> "nil"]
    ELSE [Timestamp |-> st[Len(st)].timestamp, Version |-> st[Len(st)].version,
          Success |-> TRUE, err |-> "nil"]

-----------------------------------------------------------------------------
(* Spec: the repository called sequentially *)

\* the tables Migrate creates, in the order it creates them
AllTables == {"events", "users", "status"}

NoCall == [arg |-> NoEvent, ret |-> NoEvent]

Pre ==
    [events |-> events, status |-> status, accepted |-> accepted, users |-> users,
     tables |-> tables]

NoRange == <<0, 0>>

\* call.only: the UUID every call so far carried, when all of them were InsertEvent
InitCall ==
    [op |-> "Migrate", arg |-> NoEvent, range |-> NoRange, ret |-> NoEvent, rets |-> <<>>,
     ok |-> TRUE, err |-> "nil", sql |-> <<"INSERT status">>, only |-> "",
     pre |-> [events |-> {}, status |-> <<>>, accepted |-> [u \in UUIDs |-> NoCall],
              users |-> <<>>, tables |-> {}]]

Procs == {"g1", "g2"}

InitProcs == [p \in Procs |-> [pc |-> "idle", e |-> NoEvent, dbEvent |-> NoEvent]]

InitHTTP ==
    [handler |-> "none", token |-> [kind |-> "absent"], body |-> [ok |-> TRUE], time |-> 0,
     tokenErr |-> "nil", w |-> [code |-> 0, body |-> <<>>], repo |-> <<>>]

KillIds == {"k1", "k2"}

\* the environment variables the server reads; "" is a variable not set
EnvNames ==
    {"GOCALENDAR_HOST", "GOCALENDAR_PORT", "GOCALENDAR_DEADLY_PACKAGE",
     "GOCALENDAR_ADMIN_USERNAME", "GOCALENDAR_ADMIN_HASH", "GOCALENDAR_TOKEN_SECRET"}

NoEnv == [n \in EnvNames |-> ""]

\* main has not called Configure; no goroutine runs, no request was accepted
InitLife ==
    [main |-> "Configure", state |-> "Unconfigured", deadlyPackage |-> "",
     notified |-> FALSE, listen |-> "none", inShutdown |-> FALSE, waiter |-> "none",
     signals |-> 0, consumed |-> 0, stops |-> 0, waited |-> 0, stopErr |-> "nil",
     dbOpen |-> FALSE, env |-> NoEnv]

IdleKill ==
    [pc |-> "idle", body |-> [ok |-> TRUE, payload |-> ""], w |-> [code |-> 0, body |-> <<>>],
     slept |-> 0, sent |-> FALSE]

InitKills == [k \in KillIds |-> IdleKill]

\* no checksum was answered yet
NoSum == [Type |-> "none"]

InitSums == [u \in UUIDs |-> NoSum]

\* NewXMLEventsParser: token "", which jwt.Parse does not parse; no event posted
InitParser ==
    [pc |-> "read", token |-> [kind |-> "garbage"], next |-> 1, codes |-> <<>>,
     legacy |-> FALSE, accepted |-> <<>>]

\* the repository after Migrate on an empty database
Init ==
    /\ events = {}
    /\ now = T0
    /\ status = updateStatus(<<>>, T0)
    /\ accepted = [u \in UUIDs |-> NoCall]
    /\ call = InitCall
    /\ procs = InitProcs
    /\ http = InitHTTP
    /\ users = <<>>
    /\ issued = {}
    /\ life = InitLife
    /\ sigs = <<>>
    /\ kills = InitKills
    /\ tables = AllTables
    /\ sums = InitSums
    /\ parser = InitParser

WithinBounds(ev, st) ==
    /\ Len(st) <= MaxStatus
    /\ \A r \in ev : r.id <= MaxID

\* InsertEvent(e) is called and returns
InsertEventCalled(e) ==
        LET res == InsertEvent(events, status, now, e) IN
        /\ WithinBounds(res.events, res.status)
        /\ events' = res.events
        /\ status' = res.status
        /\ accepted' = [accepted EXCEPT ![e.UUID] = [arg |-> e, ret |-> res.ret]]
        /\ call' = [op |-> "InsertEvent", arg |-> e, range |-> NoRange, ret |-> res.ret,
                    rets |-> <<>>, ok |-> TRUE, err |-> res.err, sql |-> res.sql,
                    only |-> IF call.only \in {"", e.UUID} THEN e.UUID ELSE "mixed",
                    pre |-> Pre]
        /\ UNCHANGED <<now, procs, http, authVars, lifeVars, tables, clientVars>>

CallInsertEvent == \E e \in Payloads : InsertEventCalled(e)

CallDeleteEvent ==
    \E u \in UUIDs :
        LET res == DeleteEvent(events, Base(u)) IN
        /\ events' = res.events
        /\ accepted' = [accepted EXCEPT ![u] = NoCall]
        /\ call' = [op |-> "DeleteEvent", arg |-> Base(u), range |-> NoRange,
                    ret |-> NoEvent, rets |-> <<>>, ok |-> res.ok, err |-> res.err,
                    sql |-> res.sql, only |-> "mixed", pre |-> Pre]
        /\ UNCHANGED <<status, now, procs, http, authVars, lifeVars, tables, clientVars>>

CallGetEventsByTimeRange ==
    \E a \in QueryTimes, b \in QueryTimes :
        /\ call' = [op |-> "GetEventsByTimeRange", arg |-> NoEvent, range |-> <<a, b>>,
                    ret |-> NoEvent, rets |-> GetEventsByTimeRange(events, a, b),
                    ok |-> TRUE, err |-> "nil", sql |-> <<"SELECT events">>, only |-> "mixed", pre |-> Pre]
        /\ UNCHANGED <<events, status, accepted, now, procs, http, authVars, lifeVars, tables, clientVars>>

CallGetAllEvents ==
    /\ call' = [op |-> "GetAllEvents", arg |-> NoEvent, range |-> NoRange,
                ret |-> NoEvent, rets |-> GetAllEvents(events),
                ok |-> TRUE, err |-> "nil", sql |-> <<"SELECT events">>, only |-> "mixed", pre |-> Pre]
    /\ UNCHANGED <<events, status, accepted, now, procs, http, authVars, lifeVars, tables, clientVars>>

Next ==
    \/ CallInsertEvent
    \/ CallDeleteEvent
    \/ CallGetEventsByTimeRange
    \/ CallGetAllEvents

Spec == Init /\ [][Next]_vars

-----------------------------------------------------------------------------
(* Claims about the repository called sequentially (Spec) *)

IsInsert == call.op = "InsertEvent"

Range(seq) == {seq[i] : i \in 1..Len(seq)}

IsPrefix(s1, s2) == Len(s1) <= Len(s2) /\ SubSeq(s2, 1, Len(s1)) = s1

\* the rows stored for the UUID of the last call's payload, after and before it
RowsNow == RowsByUUID(events, call.arg.UUID)
RowsBefore == RowsByUUID(call.pre.events, call.arg.UUID)

\* the last call was InsertEvent(e), e being the payload last accepted for its UUID
Resubmission == IsInsert /\ call.pre.accepted[call.arg.UUID].arg = call.arg

\* C1: after InsertEvent(e) and InsertEvent(e) again, the events table is as
\* after the first call: one row with e's UUID, with the id the first call
\* returned and with the column values it had after the first call.
C1_Idempotence ==
    Resubmission =>
        /\ events = call.pre.events
        /\ Cardinality(RowsNow) = 1
        /\ \A r \in RowsNow :
            /\ r.id = call.pre.accepted[call.arg.UUID].ret.ID
            /\ r \in RowsBefore

C1_Witness == Resubmission /\ call.pre.events # {} /\ call.arg.ID = 7

\* C2: InsertEvent of the payload last accepted for its UUID executes no
\* UPDATE, appends no status row and returns the event with the stored id.
C2_NoWriteOnResubmission ==
    Resubmission =>
        /\ "UPDATE events" \notin Range(call.sql)
        /\ status = call.pre.status
        /\ \A r \in RowsNow : call.ret.ID = r.id

\* the payload field and the column it is stored in
ColumnName ==
    [Version |-> "version", Title |-> "title", Start |-> "start", End |-> "end",
     Address |-> "address", Info |-> "info", Reminder |-> "reminder", Done |-> "done",
     Important |-> "important", Urgent |-> "urgent", Source |-> "source"]

DiffersOnlyIn(e1, e2, f) ==
    /\ e1[f] # e2[f]
    /\ e1.UUID = e2.UUID
    /\ e1.Type = e2.Type
    /\ \A g \in (DOMAIN ColumnName) \ {f} : e1[g] = e2[g]

ConvergesOn(F) ==
    IsInsert =>
        LET e2 == call.arg
            e1 == call.pre.accepted[e2.UUID].arg
        IN e1 # NoEvent =>
            \A f \in F :
                DiffersOnlyIn(e1, e2, f) =>
                    /\ Cardinality(RowsNow) = 1
                    /\ \A r \in RowsNow : r[ColumnName[f]] = Columns(e2)[ColumnName[f]]

\* C3: with e1 stored, InsertEvent(e2), e2 differing from e1 in one field f only
\* (any field but the id and the UUID), leaves one row with the UUID, and the
\* row's f is e2's.
C3_ConvergentUpdate == ConvergesOn(DOMAIN ColumnName)

\* the same for every field that ToString formats (all but source)
C3_ConvergentUpdateHashedFields == ConvergesOn((DOMAIN ColumnName) \ {"Source"})

\* the last call was InsertEvent, found a row with the UUID and the hashes differed
UpdateCase ==
    /\ IsInsert
    /\ RowsBefore # {}
    /\ Sha256(convertRawEventRecordToEventData(FirstRow(RowsBefore))) # Sha256(call.arg)

\* C4: when InsertEvent finds a row with the UUID and the hashes differ, the
\* row keeps its id and UUID, the rows of other UUIDs are unchanged, one status
\* row is appended and the event returned carries the stored id.
C4_UpdateFrame ==
    UpdateCase =>
        /\ {<<r.id, r.uuid>> : r \in events} = {<<r.id, r.uuid>> : r \in call.pre.events}
        /\ {r \in events : r.uuid # call.arg.UUID}
             = {r \in call.pre.events : r.uuid # call.arg.UUID}
        /\ Len(status) = Len(call.pre.status) + 1
        /\ IsPrefix(call.pre.status, status)
        /\ call.ret.ID = FirstRow(RowsBefore).id

C4_Witness ==
    /\ UpdateCase
    /\ call.arg.ID # call.ret.ID
    /\ \E r \in events : r.uuid # call.arg.UUID

\* the last call was InsertEvent and found no row with the UUID
InsertCase == IsInsert /\ RowsBefore = {}

\* C5: InsertEvent of a UUID that is not stored adds one row, with an id no
\* other stored event has, appends one status row and returns the event with
\* that id; stored events never share an id, and GetAllEvents returns, for
\* every event, the id InsertEvent reported for it.
C5_InsertAssignsFreshID ==
    /\ InsertCase =>
        /\ \E r \in events :
            /\ r \notin call.pre.events
            /\ events = call.pre.events \cup {r}
            /\ r.uuid = call.arg.UUID
            /\ \A q \in call.pre.events : q.id # r.id
            /\ call.ret.ID = r.id
        /\ Len(status) = Len(call.pre.status) + 1
        /\ IsPrefix(call.pre.status, status)
    /\ \A r, q \in events : r.id = q.id => r = q
    /\ call.op = "GetAllEvents" =>
        /\ Len(call.rets) = Cardinality(events)
        /\ \A i \in 1..Len(call.rets) :
            call.rets[i].ID = accepted[call.rets[i].UUID].ret.ID

C5_Witness ==
    /\ call.op = "GetAllEvents"
    /\ Len(call.rets) = 2
    /\ \E i \in 1..2 : accepted[call.rets[i].UUID].arg.ID = 7

\* C6: after a sequence of InsertEvent calls that all carry one UUID, the
\* events table is the one a single InsertEvent of the last payload produces:
\* one row, with the column values of that payload.
C6_Convergence ==
    (IsInsert /\ call.only = call.arg.UUID) =>
        /\ Cardinality(RowsNow) = 1
        /\ events = InsertEvent({}, <<>>, now, call.arg).events

\* C8: GetEventsByTimeRange(a, b) returns a stored event exactly when
\* b >= start and a <= end for its stored start and end, an interval touching
\* a bound included, and returns nothing that is not stored.
C8_RangeQuery ==
    call.op = "GetEventsByTimeRange" =>
        LET a == call.range[1]
            b == call.range[2]
            ids == {call.rets[i].ID : i \in 1..Len(call.rets)}
        IN /\ \A r \in events : r.id \in ids <=> (b >= r.start /\ a <= r.end)
           /\ \A i \in 1..Len(call.rets) :
                \E r \in events : call.rets[i] = convertRawEventRecordToEventData(r)
           /\ Cardinality(ids) = Len(call.rets)

\* a query whose lower bound is the end of a returned event, with another
\* event stored that the query leaves out
C8_Witness ==
    /\ call.op = "GetEventsByTimeRange"
    /\ \E r \in events :
        /\ call.range[1] = r.end
        /\ r.id \in {call.rets[i].ID : i \in 1..Len(call.rets)}
    /\ Len(call.rets) < Cardinality(events)

-----------------------------------------------------------------------------
(* SpecConc: InsertEvent run by concurrent request goroutines.  Every SQL   *)
(* statement is one step; the store serialises the statements, nothing      *)
(* else orders the goroutines.                                              *)

\* the versions of one event the goroutines submit, and an unrelated event
ConcPayloads == {Base("u1"), [Base("u1") EXCEPT !.Title = "Retro"], Base("u2")}

\* a request arrives: the handler's goroutine calls InsertEvent(e)
Begin(p) ==
    /\ procs[p].pc = "idle"
    /\ \E e \in ConcPayloads :
        procs' = [procs EXCEPT ![p] = [pc |-> "select", e |-> e, dbEvent |-> NoEvent]]
    /\ UNCHANGED <<events, status, accepted, call, now, http, authVars, lifeVars, tables, clientVars>>

\* SELECT * FROM events WHERE uuid = ?, and the comparison of the hashes
Select(p) ==
    /\ procs[p].pc = "select"
    /\ LET e == procs[p].e
           rows == RowsByUUID(events, e.UUID)
       IN IF rows # {}
          THEN LET dbEvent == convertRawEventRecordToEventData(FirstRow(rows))
                   e1 == [e EXCEPT !.ID = dbEvent.ID]
               IN procs' = [procs EXCEPT ![p] =
                       [pc |-> IF Sha256(dbEvent) = Sha256(e1) THEN "idle" ELSE "update",
                        e |-> e1, dbEvent |-> dbEvent]]
          ELSE procs' = [procs EXCEPT ![p].pc = "insert"]
    /\ UNCHANGED <<events, status, accepted, call, now, http, authVars, lifeVars, tables, clientVars>>

\* updateEvent: the UPDATE statement
Update(p) ==
    /\ procs[p].pc = "update"
    /\ events' = updateEvent(events, status, now, procs[p].e).events
    /\ procs' = [procs EXCEPT ![p].pc = "status"]
    /\ UNCHANGED <<status, accepted, call, now, http, authVars, lifeVars, tables, clientVars>>

\* insertEvent: the INSERT statement and LastInsertId
Insert(p) ==
    /\ procs[p].pc = "insert"
    /\ LET res == insertEvent(events, status, now, procs[p].e) IN
        /\ \A r \in res.events : r.id <= MaxID
        /\ events' = res.events
        /\ procs' = [procs EXCEPT ![p] = [@ EXCEPT !.pc = "status", !.e = res.ret]]
    /\ UNCHANGED <<status, accepted, call, now, http, authVars, lifeVars, tables, clientVars>>

\* updateStatus, then InsertEvent returns
Status(p) ==
    /\ procs[p].pc = "status"
    /\ Len(status) < MaxStatus
    /\ status' = updateStatus(status, now)
    /\ procs' = [procs EXCEPT ![p].pc = "idle"]
    /\ UNCHANGED <<events, accepted, call, now, http, authVars, lifeVars, tables, clientVars>>

NextConc == \E p \in Procs : Begin(p) \/ Select(p) \/ Update(p) \/ Insert(p) \/ Status(p)

SpecConc == Init /\ [][NextConc]_vars

\* C7: with InsertEvent calls of one UUID running concurrently, the events
\* table never holds two rows with that UUID, and every row is one of the
\* submitted versions.
C7_UniqueUUIDConcurrent ==
    /\ \A u \in UUIDs : Cardinality(RowsByUUID(events, u)) <= 1
    /\ \A r \in events : \E e \in ConcPayloads : r = Row(r.id, Columns(e))

-----------------------------------------------------------------------------
(* Token Authority: createJWT and validateJWT.  A token on the wire is what *)
(* jwt.Parse can tell about it: whether it parses, its signing method,     *)
(* whether its signature verifies under the secret, and its exp claim.     *)

tokenLifeTime == 120

NoToken == [kind |-> "absent"]

Garbage == [kind |-> "garbage"]

createJWT(username, t) ==
    [kind |-> "jwt", alg |-> "HS512", signed |-> TRUE, hasExp |-> TRUE,
     exp |-> t + tokenLifeTime, user |-> username]

\* jwt.Parse with keyFunc: the token parses, its method is an HMAC one, the
\* signature verifies, and the validator finds the time before exp
jwtParseFails(tok, t) ==
    \/ tok.kind # "jwt"
    \/ tok.alg \notin {"HS256", "HS384", "HS512"}
    \/ ~tok.signed
    \/ (tok.hasExp /\ ~(t < tok.exp))

\* mutant: a later login of the same user revokes the token
validateJWTLatestLogin(tok, t) ==
    IF tok.kind = "absent" THEN "failed to obtain token from HEADER"
    ELSE IF jwtParseFails(tok, t) THEN "there was an error during token parsing"
    ELSE IF \E other \in issued : other.user = tok.user /\ other.exp > tok.exp
    THEN "token has been revoked"
    ELSE "nil"

validateJWT(tok, t) ==
    IF tok.kind = "absent" THEN "failed to obtain token from HEADER"
    ELSE IF jwtParseFails(tok, t) THEN "there was an error during token parsing"
    ELSE IF ~tok.hasExp THEN "failed to obtain token expiration time"
    ELSE IF tok.exp < t THEN "token has expired"
    ELSE "nil"

\* the Token headers of the requests: none, not a token, the token a login at
\* T0 returned, that token signed with another secret, and one with the same
\* claims under a signing method that is not an HMAC one
TokensOnWire ==
    {NoToken, Garbage, createJWT("admin", T0),
     [createJWT("admin", T0) EXCEPT !.signed = FALSE],
     [createJWT("admin", T0) EXCEPT !.alg = "RS256"]}

-----------------------------------------------------------------------------
(* Request Gateway: the handlers.  A handler's result carries the response *)
(* writer, the tables and the repository operations it called.             *)

Version == "v1.1.0"
ResponseStatusName == "ResponseStatus"
InvalidTokenRespName == "InvalidTokenResp"
VersionRespName == "VersionResp"
AddEventRespName == "AddEventResp"
GetEventCheckSumRespName == "GetEventCheckSumResp"
GetEventsRespName == "GetEventsResp"
GetStatusRespName == "GetStatusResp"

StatusOK == 200
StatusUnauthorized == 401
StatusInternalServerError == 500

\* http.ResponseWriter: the status code is the one of the first WriteHeader,
\* or 200 when Write comes first
NewResponse == [code |-> 0, body |-> <<>>]

WriteHeader(w, c) == IF w.code = 0 THEN [w EXCEPT !.code = c] ELSE w

send(w, resp) ==
    [code |-> IF w.code = 0 THEN StatusOK ELSE w.code, body |-> Append(w.body, resp)]

invalidTokenResponse(w, reason) ==
    send(WriteHeader(w, StatusUnauthorized),
         [Type |-> InvalidTokenRespName, Success |-> FALSE, Message |-> reason])

Rejected(w, reason, ev, st) ==
    [w |-> invalidTokenResponse(w, reason), events |-> ev, status |-> st, repo |-> <<>>]

serverVersionHandler(req, ev, st, t) ==
    LET err == validateJWT(req.token, t) IN
    IF err # "nil" THEN Rejected(NewResponse, err, ev, st)
    ELSE [w |-> send(WriteHeader(NewResponse, StatusOK),
                     [Type |-> VersionRespName, Success |-> TRUE, Message |-> "",
                      Version |-> Version]),
          events |-> ev, status |-> st, repo |-> <<>>]

\* sha256.Size: the bytes of a [32]byte digest
Sha256Size == 32

\* fmt.Sprintf("%x", digest): two hexadecimal digits per byte
Sprintfx(digest) == [hex |-> digest, digits |-> 2 * Sha256Size]

\* mutant: the digest is taken over the event and the time of the request
getEventCheckSumSalted(req, ev, st, t) ==
    LET w == WriteHeader(NewResponse, StatusOK)
        err == validateJWT(req.token, t)
        uuid == IF req.body.ok THEN req.body.uuid ELSE ""
        event == GetEventByUUID(ev, uuid)
    IN IF err # "nil" THEN Rejected(w, err, ev, st)
       ELSE [w |-> send(w, [Type |-> GetEventCheckSumRespName,
                            Sum |-> Sprintfx(<<t>> \o Sha256(event)),
                            Success |-> TRUE, Message |-> ""]),
             events |-> ev, status |-> st, repo |-> <<"GetEventByUUID">>]

getEventCheckSum(req, ev, st, t) ==
    LET w == WriteHeader(NewResponse, StatusOK)
        err == validateJWT(req.token, t)
        uuid == IF req.body.ok THEN req.body.uuid ELSE ""
        event == GetEventByUUID(ev, uuid)
    IN IF err # "nil" THEN Rejected(w, err, ev, st)
       ELSE [w |-> send(w, [Type |-> GetEventCheckSumRespName,
                            Sum |-> Sprintfx(Sha256(event)),
                            Success |-> TRUE, Message |-> ""]),
             events |-> ev, status |-> st, repo |-> <<"GetEventByUUID">>]

\* getStatus once srv.db.GetStatus() has returned resp
getStatusOn(resp, ev, st, t) ==
    LET w == WriteHeader(NewResponse, StatusOK)
        body == [Type |-> ResponseStatusName, Timestamp |-> resp.Timestamp,
                 Version |-> resp.Version, Success |-> resp.Success, Message |-> ""]
        failure == [Type |-> GetStatusRespName, Timestamp |-> t, Version |-> Version,
                    Success |-> FALSE, Message |-> resp.err]
    IN [w |-> IF resp.err # "nil"
              THEN send(send(WriteHeader(w, StatusInternalServerError), failure), failure)
              ELSE send(w, body),
        events |-> ev, status |-> st, repo |-> <<"GetStatus">>]

getStatus(req, ev, st, t) == getStatusOn(GetStatus(st), ev, st, t)

AddEventFailure(w, msg) ==
    send(WriteHeader(w, StatusInternalServerError),
         [Type |-> AddEventRespName, Success |-> FALSE, Message |-> msg])

insertEventHandler(req, ev, st, t) ==
    LET w == WriteHeader(NewResponse, StatusOK)
        err == validateJWT(req.token, t)
    IN IF err # "nil" THEN Rejected(w, err, ev, st)
       ELSE IF ~req.body.ok
       THEN [w |-> AddEventFailure(w, "decode error"),
             events |-> ev, status |-> st, repo |-> <<>>]
       ELSE LET res == InsertEvent(ev, st, t, req.body.event) IN
            IF res.err # "nil"
            THEN [w |-> AddEventFailure(w, res.err),
                  events |-> res.events, status |-> res.status, repo |-> <<"InsertEvent">>]
            ELSE [w |-> send(w, [Type |-> AddEventRespName,
                                 Success |-> res.ret.UUID = req.body.event.UUID,
                                 Message |-> ""]),
                  events |-> res.events, status |-> res.status, repo |-> <<"InsertEvent">>]

getEventsWithinTimeRange(req, ev, st, t) ==
    LET w == WriteHeader(NewResponse, StatusOK)
        err == validateJWT(req.token, t)
    IN IF err # "nil" THEN Rejected(w, err, ev, st)
       ELSE IF ~req.body.ok
       THEN [w |-> send(WriteHeader(w, StatusInternalServerError),
                        [Type |-> GetEventsRespName, Success |-> FALSE,
                         Message |-> "Missing body.", Events |-> <<>>]),
             events |-> ev, status |-> st, repo |-> <<>>]
       ELSE [w |-> send(w, [Type |-> GetEventsRespName, Success |-> FALSE, Message |-> "",
                            Events |-> GetEventsByTimeRange(ev,
                                          dateTimeToUnix(req.body.start),
                                          dateTimeToUnix(req.body.end))]),
             events |-> ev, status |-> st, repo |-> <<"GetEventsByTimeRange">>]

-----------------------------------------------------------------------------
(* SpecHTTP: requests served one at a time, and the clock *)

BadBody == [ok |-> FALSE]

NoBody == [ok |-> TRUE]

HTTPPayloads == {Base("u1"), [Base("u1") EXCEPT !.Title = "Retro"], Base("u2")}

InsertBodies == {[ok |-> TRUE, event |-> e] : e \in HTTPPayloads} \cup {BadBody}

ChecksumBodies == {[ok |-> TRUE, uuid |-> u] : u \in UUIDs} \cup {BadBody}

RangeMoments ==
    {DT(DateTimeStructName, 2024, 2, 13, 0, 0), DT(DateTimeStructName, 2024, 2, 13, 9, 0),
     DT(DateTimeStructName, 2024, 2, 13, 23, 59)}

RangeBodies ==
    {[ok |-> TRUE, start |-> a, end |-> b] : a \in RangeMoments, b \in RangeMoments}
    \cup {BadBody}

TickSeconds == tokenLifeTime \div 2

Tick ==
    /\ now < T0 + MaxTime * TickSeconds
    /\ now' = now + TickSeconds
    /\ UNCHANGED <<events, status, accepted, call, procs, http, authVars, lifeVars, tables, clientVars>>

\* the request of the step is served by handler h with result res
Responded(h, req, res) ==
    /\ WithinBounds(res.events, res.status)
    /\ events' = res.events
    /\ status' = res.status
    /\ http' = [handler |-> h, token |-> req.token, body |-> req.body, time |-> now,
                tokenErr |-> validateJWT(req.token, now), w |-> res.w, repo |-> res.repo]

Served(h, req, res) ==
    /\ Responded(h, req, res)
    /\ UNCHANGED <<accepted, call, now, procs, authVars, lifeVars, tables, clientVars>>

ServeVersion ==
    \E tok \in TokensOnWire :
        LET req == [token |-> tok, body |-> NoBody] IN
        Served("version", req, serverVersionHandler(req, events, status, now))

ServeInsertEvent ==
    \E tok \in TokensOnWire, b \in InsertBodies :
        LET req == [token |-> tok, body |-> b] IN
        Served("insertEvent", req, insertEventHandler(req, events, status, now))

ServeGetEventCheckSum ==
    \E tok \in TokensOnWire, b \in ChecksumBodies :
        LET req == [token |-> tok, body |-> b] IN
        Served("getEventCheckSum", req, getEventCheckSum(req, events, status, now))

ServeGetEventsWithinTimeRange ==
    \E tok \in TokensOnWire, b \in RangeBodies :
        LET req == [token |-> tok, body |-> b] IN
        Served("getEventsWithinTimeRange", req,
               getEventsWithinTimeRange(req, events, status, now))

ServeGetStatus ==
    \E tok \in TokensOnWire :
        LET req == [token |-> tok, body |-> NoBody] IN
        Served("status", req, getStatus(req, events, status, now))

NextHTTP ==
    \/ Tick
    \/ ServeVersion
    \/ ServeInsertEvent
    \/ ServeGetEventCheckSum
    \/ ServeGetEventsWithinTimeRange
    \/ ServeGetStatus

SpecHTTP == Init /\ [][NextHTTP]_vars

\* the endpoints the interface lists as requiring a token
AuthenticatedEndpoints ==
    {"version", "insertEvent", "getEventCheckSum", "getEventsWithinTimeRange", "status"}

\* the last request went to handler h in H with no token or one validateJWT rejects
BadTokenRequest(H) == http.handler \in H /\ http.tokenErr # "nil"

\* C9: a request to an authenticated endpoint (version, insert, checksum,
\* range query, status) with no token or an invalid one is rejected before any
\* repository operation, and the response carries nothing but the rejection.
C9_RejectedBeforeRepository ==
    BadTokenRequest(AuthenticatedEndpoints) =>
        /\ http.repo = <<>>
        /\ \A i \in 1..Len(http.w.body) : http.w.body[i].Type = InvalidTokenRespName

\* the same for the handlers that call validateJWT (all but status)
C9_RejectedByValidatingHandlers ==
    BadTokenRequest(AuthenticatedEndpoints \ {"status"}) =>
        /\ http.repo = <<>>
        /\ \A i \in 1..Len(http.w.body) : http.w.body[i].Type = InvalidTokenRespName

\* C10: serverVersionHandler, insertEvent, getEventCheckSum and
\* getEventsWithinTimeRange answer a request with no token or an invalid one
\* with status code 401 and the InvalidTokenResp envelope, success false and a
\* message.
C10_Unauthorized401 ==
    BadTokenRequest({"version", "insertEvent", "getEventCheckSum",
                     "getEventsWithinTimeRange"}) =>
        /\ http.w.code = StatusUnauthorized
        /\ http.w.body = <<[Type |-> InvalidTokenRespName, Success |-> FALSE,
                            Message |-> http.tokenErr]>>

\* the same for serverVersionHandler alone, the one handler that does not
\* write the 200 header first
C10_VersionUnauthorized401 ==
    BadTokenRequest({"version"}) =>
        /\ http.w.code = StatusUnauthorized
        /\ http.w.body = <<[Type |-> InvalidTokenRespName, Success |-> FALSE,
                            Message |-> http.tokenErr]>>

\* the token is one createJWT returned, unaltered
IssuedToken(tok) ==
    /\ tok.kind = "jwt"
    /\ tok = createJWT(tok.user, tok.exp - tokenLifeTime)

\* the last request carried a token createJWT issued
IssuedTokenRequest == http.handler # "none" /\ IssuedToken(http.token)

\* C11: a token issued by createJWT at t0 (exp = t0 + tokenLifeTime) passes
\* validateJWT at every time t < t0 + tokenLifeTime and is rejected as expired
\* at every time t >= t0 + tokenLifeTime, the time t0 + tokenLifeTime included.
C11_TokenLifecycle ==
    IssuedTokenRequest =>
        IF http.time < http.token.exp
        THEN http.tokenErr = "nil"
        ELSE http.tokenErr = "token has expired"

\* the part of C11 about when the token passes: exactly at the times before exp
C11_ValidUntilExpiry ==
    IssuedTokenRequest => (http.tokenErr = "nil" <=> http.time < http.token.exp)

\* what made validateJWT refuse the token, "none" when nothing did
Cause(tok, t) ==
    IF tok.kind = "absent" THEN "MissingToken"
    ELSE IF tok.kind # "jwt" THEN "MalformedToken"
    ELSE IF tok.alg \notin {"HS256", "HS384", "HS512"} THEN "UnsupportedAlgorithm"
    ELSE IF ~tok.signed THEN "MalformedToken"
    ELSE IF tok.hasExp /\ t >= tok.exp THEN "Expired"
    ELSE "none"

\* the outcome an error of validateJWT tells the caller
Outcome(err) ==
    CASE err = "nil" -> "none"
      [] err = "failed to obtain token from HEADER" -> "MissingToken"
      [] err = "unsupported signing method" -> "UnsupportedAlgorithm"
      [] err = "there was an error during token parsing" -> "MalformedToken"
      [] err = "token has expired" -> "Expired"
      [] OTHER -> "other"

\* C12: validateJWT reports one outcome per cause: no Token header, a signing
\* method that is not HMAC, a token that fails parsing or signature
\* verification, and a correctly signed token whose expiry has passed; an
\* expired token yields the expired outcome, not the parsing one.
C12_OutcomePerCause ==
    http.handler # "none" => Outcome(http.tokenErr) = Cause(http.token, http.time)

\* what the code does tell apart: no header, any other refusal, acceptance
C12_MissingOrParsing ==
    http.handler # "none" =>
        Outcome(http.tokenErr) =
            CASE Cause(http.token, http.time) = "none" -> "none"
              [] Cause(http.token, http.time) = "MissingToken" -> "MissingToken"
              [] OTHER -> "MalformedToken"

-----------------------------------------------------------------------------
(* Credentials: table users, AddUser, AuthenticateUser, and loginHandler.  *)
(* A bcrypt hash is modelled by what CompareHashAndPassword can tell about *)
(* it: whether it is a hash at all and the password it is a hash of.       *)

MaxUsers == 2       \* rows of table users
MaxIssued == 2      \* tokens held by clients
MaxMigrations == 1  \* calls of Migrate after the first

Usernames == {"admin", "guest"}
Passwords == {"pw1", "pw2"}

\* the zero value of User.Password: no bcrypt hash
EmptyHash == [alg |-> "none", of |-> ""]

hashPassword(plainPassword) == [alg |-> "bcrypt", of |-> plainPassword]

checkPasswordHash(plainPassword, hash) ==
    hash.alg = "bcrypt" /\ hash.of = plainPassword

AddUserHashesAgain(us, user, password, hashed) ==
    [users |-> Append(us, [username |-> user, password |-> hashPassword("$2a$")]),
     err |-> "nil"]

\* INSERT INTO users (username, password) VALUES (?, ?)
AddUser(us, user, password, hashed) ==
    [users |-> Append(us, [username |-> user,
                           password |-> IF hashed THEN password
                                        ELSE hashPassword(password)]),
     err |-> "nil"]

\* the rows.Next() loop: user holds the last row scanned, or the zero value
lastScanned(rows) ==
    IF rows = <<>> THEN [username |-> "", password |-> EmptyHash] ELSE rows[Len(rows)]

UserRows(us, username) == SelectSeq(us, LAMBDA r : r.username = username)

\* mutant: a username without a row is reported as an error
AuthenticateUserTellsUnknown(us, username, password) ==
    IF UserRows(us, username) = <<>>
    THEN [ok |-> FALSE, err |-> "unknown user"]
    ELSE [ok |-> checkPasswordHash(password, lastScanned(UserRows(us, username)).password),
          err |-> "nil"]

\* SELECT username, password FROM users WHERE username = ?
AuthenticateUser(us, username, password) ==
    [ok |-> checkPasswordHash(password, lastScanned(UserRows(us, username)).password),
     err |-> "nil"]

TokenMsgName == "TokenMsg"
TextName == "text/plain"

\* writer.Write: the body grows; the status is 200 when no header was written
Write(w, data) ==
    [code |-> IF w.code = 0 THEN StatusOK ELSE w.code, body |-> Append(w.body, data)]

Fprintf(w, text) == Write(w, [Type |-> TextName, Message |-> text])

\* mutant: the token is written whatever AuthenticateUser returned
loginHandlerNoCheck(req, us, t) ==
    [w |-> Write(WriteHeader(NewResponse, StatusOK),
                 [Type |-> TokenMsgName, Token |-> createJWT(req.body.username, t)]),
     repo |-> <<"AuthenticateUser">>]

loginAuthenticated(req, auth, t) ==
    IF ~auth.ok
    THEN [w |-> Fprintf(NewResponse, "Not enough mana!"), repo |-> <<"AuthenticateUser">>]
    ELSE IF auth.err # "nil"
    THEN [w |-> Fprintf(NewResponse, auth.err), repo |-> <<"AuthenticateUser">>]
    ELSE [w |-> Write(WriteHeader(NewResponse, StatusOK),
                      [Type |-> TokenMsgName, Token |-> createJWT(req.body.username, t)]),
          repo |-> <<"AuthenticateUser">>]

\* GOCALENDAR_TOKEN_SECRET is set, as the installation prerequisites require
loginHandler(req, us, t) ==
    IF req.body.method # "POST"
    THEN [w |-> Fprintf(NewResponse, "method not implemented!"), repo |-> <<>>]
    ELSE IF ~req.body.ok
    THEN [w |-> Fprintf(NewResponse, "Invalid or corrupted request!"), repo |-> <<>>]
    ELSE loginAuthenticated(req,
             AuthenticateUser(us, req.body.username, req.body.password), t)

-----------------------------------------------------------------------------
(* SpecAuth: credentials are added, clients log in and present the tokens  *)
(* they were given, while the repository is written and the clock runs     *)

\* the AddUser calls: Configure with GOCALENDAR_ADMIN_USERNAME and
\* GOCALENDAR_ADMIN_HASH, and a second row for the administrator with
\* another password
ReadyCalls == {[user |-> "admin", password |-> hashPassword("pw1")]}
PlainCalls == {[user |-> "admin", password |-> "pw2"]}

LoginBodies ==
    {[ok |-> TRUE, method |-> "POST", username |-> u, password |-> pw] :
        u \in Usernames, pw \in Passwords}
    \cup {[ok |-> TRUE, method |-> "GET", username |-> "admin", password |-> "pw1"],
          [ok |-> FALSE, method |-> "POST", username |-> "", password |-> ""]}

CallAddUser ==
    \E hashed \in BOOLEAN :
        \E c \in (IF hashed THEN ReadyCalls ELSE PlainCalls) :
            /\ Len(users) < MaxUsers
            /\ users' = AddUser(users, c.user, c.password, hashed).users
            /\ UNCHANGED <<events, status, accepted, call, now, procs, http, issued, lifeVars, tables, clientVars>>

\* the tokens in the body of response w
TokensWritten(w) ==
    {w.body[i].Token : i \in {j \in DOMAIN w.body : w.body[j].Type = TokenMsgName}}

LoggedIn(req, res) ==
    /\ Cardinality(issued \cup TokensWritten(res.w)) <= MaxIssued
    /\ issued' = issued \cup TokensWritten(res.w)
    /\ http' = [handler |-> "login", token |-> NoToken, body |-> req.body, time |-> now,
                tokenErr |-> "nil", w |-> res.w, repo |-> res.repo]
    /\ UNCHANGED <<events, status, accepted, call, now, procs, users, lifeVars, tables, clientVars>>

ServeLogin ==
    \E b \in LoginBodies :
        LoggedIn([body |-> b], loginHandler([body |-> b], users, now))

ServeVersionIssued ==
    \E tok \in issued :
        Served("version", [token |-> tok, body |-> NoBody],
               serverVersionHandler([token |-> tok, body |-> NoBody], events, status, now))

ServeInsertEventIssued ==
    \E tok \in issued :
        Served("insertEvent", [token |-> tok, body |-> [ok |-> TRUE, event |-> Base("u1")]],
               insertEventHandler([token |-> tok,
                                   body |-> [ok |-> TRUE, event |-> Base("u1")]],
                                  events, status, now))

\* Migrate on the open database: the tables exist, one status row is added
CallMigrate ==
    /\ Len(status) <= MaxMigrations
    /\ status' = updateStatus(status, now)
    /\ UNCHANGED <<events, accepted, call, now, procs, http, authVars, lifeVars, tables, clientVars>>

NextAuth ==
    \/ Tick
    \/ CallAddUser
    \/ ServeLogin
    \/ ServeVersionIssued
    \/ ServeInsertEventIssued
    \/ CallMigrate

SpecAuth == Init /\ [][NextAuth]_vars

\* the credentials of the last login request pass AuthenticateUser
LoginAuthenticates ==
    /\ http'.body.method = "POST"
    /\ http'.body.ok
    /\ AuthenticateUser(users, http'.body.username, http'.body.password).ok

\* C13: loginHandler writes a TokenMsg with a signed token exactly when
\* AuthenticateUser(username, password) returns true; for unknown users, wrong
\* passwords, undecodable bodies and other methods than POST it writes none.
C13_TokenIffAuthenticated ==
    [][(http' # http /\ http'.handler = "login") =>
          /\ TokensWritten(http'.w) # {} <=> LoginAuthenticates
          /\ TokensWritten(http'.w) \subseteq {createJWT(http'.body.username, now)}
          /\ issued' = issued \cup TokensWritten(http'.w)]_vars

C13_Witness ==
    /\ http.handler = "login"
    /\ TokensWritten(http.w) = {createJWT("admin", http.time)}
    /\ http.body.password = "pw2"

Denied == [ok |-> FALSE, err |-> "nil"]

\* no row of table users carries the username
UnknownUser(u) == UserRows(users, u) = <<>>

\* the username has rows and w is the password of none of them
WrongPassword(r, w) ==
    /\ UserRows(users, r) # <<>>
    /\ \A i \in DOMAIN users :
          users[i].username = r => ~checkPasswordHash(w, users[i].password)

\* C14: AuthenticateUser(u, p) for a username without a credential row and
\* AuthenticateUser(r, w) for an existing username with a wrong password both
\* return (false, nil): neither the boolean nor the error tells them apart.
C14_NonEnumeration ==
    \A u \in Usernames, p \in Passwords :
        (UnknownUser(u) \/ WrongPassword(u, p)) =>
            AuthenticateUser(users, u, p) = Denied

C14_Witness ==
    /\ \E u \in Usernames : UnknownUser(u)
    /\ \E r \in Usernames, w \in Passwords : WrongPassword(r, w)
    /\ http.handler = "login" /\ http.body.method = "POST" /\ http.body.ok
    /\ WrongPassword(http.body.username, http.body.password)

\* the response of the last request is not the rejection of its token
TokenAccepted == \A i \in DOMAIN http.w.body : http.w.body[i].Type # InvalidTokenRespName

MigrateFailures == {"nil", "events", "users", "status", "updateStatus"}

\* CREATE TABLE IF NOT EXISTS events, users, status; then updateStatus
Migrate(tabs, st, t, fail) ==
    IF fail = "events" THEN [tables |-> tabs, status |-> st, err |-> "events"]
    ELSE IF fail = "users"
    THEN [tables |-> tabs \cup {"events"}, status |-> st, err |-> "users"]
    ELSE IF fail = "status"
    THEN [tables |-> tabs \cup {"events", "users"}, status |-> st, err |-> "status"]
    ELSE IF fail = "updateStatus"
    THEN [tables |-> AllTables, status |-> st, err |-> "updateStatus"]
    ELSE [tables |-> AllTables, status |-> updateStatus(st, t), err |-> "nil"]

\* GetStatus: the query fails when the table does not exist
GetStatusFrom(tabs, st) ==
    IF "status" \notin tabs
    THEN [Timestamp |-> 0, Version |-> "", Success |-> FALSE, err |-> "no such table"]
    ELSE GetStatus(st)

InitRepo ==
    /\ events = {}
    /\ now = T0
    /\ status = <<>>
    /\ accepted = [u \in UUIDs |-> NoCall]
    /\ call = [InitCall EXCEPT !.op = "NewSQLiteRepository", !.sql = <<>>]
    /\ procs = InitProcs
    /\ http = InitHTTP
    /\ users = <<>>
    /\ issued = {}
    /\ life = InitLife
    /\ sigs = <<>>
    /\ kills = InitKills
    /\ tables = {}
    /\ sums = InitSums
    /\ parser = InitParser

(***************************************************************************)
(* Server lifecycle: main, the channel sigs, Stop and the kill endpoint.   *)
(* life.state names the lifecycle by the calls main has made: Configure    *)
(* gives Configured, StartTLS gives Serving, entering Stop gives Draining  *)
(* and its return gives Stopped.  life.listen is the goroutine StartTLS    *)
(* starts, life.waiter the goroutine main starts to receive from sigs.     *)
(* Signals count as delivered from signal.Notify on.                       *)
(***************************************************************************)
MaxSignals == 2

GracefulShutdownTimeout == 2
ShutdownTimeout == 10
SigsCapacity == 1

SIGINT == "SIGINT"
SIGTERM == "SIGTERM"

KillRespName == "KillResp"

\* hashes are records here; this text of the environment stands for the
\* bcrypt hash of "pw1", any other text for itself
AdminHashText == "$2a$pw1"

hashOfText(text) ==
    IF text = AdminHashText THEN hashPassword("pw1") ELSE [alg |-> "none", of |-> text]

FullEnv ==
    [n \in EnvNames |->
        CASE n = "GOCALENDAR_HOST" -> "localhost"
          [] n = "GOCALENDAR_PORT" -> "8443"
          [] n = "GOCALENDAR_DEADLY_PACKAGE" -> "deadly"
          [] n = "GOCALENDAR_ADMIN_USERNAME" -> "admin"
          [] n = "GOCALENDAR_ADMIN_HASH" -> AdminHashText
          [] OTHER -> "secret"]

\* the environments of a start: every variable set, or one of them missing
Envs == {FullEnv} \cup {[FullEnv EXCEPT ![n] = ""] : n \in EnvNames}

\* request bodies of the kill endpoint; an undecodable body leaves KillReq zero
KillBodies ==
    {[ok |-> TRUE, payload |-> "deadly"], [ok |-> TRUE, payload |-> "wrong"],
     [ok |-> TRUE, payload |-> ""], [ok |-> FALSE, payload |-> ""]}

Running == life.main \notin {"Aborted", "Returned"}

\* the listener accepts connections
Accepting == Running /\ life.listen = "serving" /\ ~life.inShutdown

\* the panic of Configure on a missing variable, in the order of its checks;
\* a missing deadly package is logged only, the token secret is not read
configure(env) ==
    IF env["GOCALENDAR_HOST"] = "" THEN "failed to obtain host"
    ELSE IF env["GOCALENDAR_PORT"] = "" THEN "failed to obtain port"
    ELSE IF env["GOCALENDAR_ADMIN_USERNAME"] = "" THEN "failed to obtain adminUsername"
    ELSE IF env["GOCALENDAR_ADMIN_HASH"] = "" THEN "failed to obtain adminHash"
    ELSE "nil"

\* Configure returns: the variables it checks are set, sql.Open, Migrate and
\* AddUser(adminUsername, adminHash, true) succeeded
Configure ==
    /\ life.main = "Configure"
    /\ \E env \in Envs :
           /\ configure(env) = "nil"
           /\ life' = [life EXCEPT !.main = "StartTLS", !.state = "Configured",
                                   !.deadlyPackage = env["GOCALENDAR_DEADLY_PACKAGE"],
                                   !.dbOpen = TRUE, !.env = env]
           /\ users' = AddUser(users, env["GOCALENDAR_ADMIN_USERNAME"],
                               hashOfText(env["GOCALENDAR_ADMIN_HASH"]), TRUE).users
    /\ tables' = Migrate(tables, status, now, "nil").tables
    /\ status' = Migrate(tables, status, now, "nil").status
    /\ UNCHANGED <<events, accepted, call, now, procs, http, issued, sigs, kills, clientVars>>

\* Configure panics: on a variable it checks, or on sql.Open, Migrate or AddUser
ConfigurePanics ==
    /\ life.main = "Configure"
    /\ \E env \in Envs, dbFails \in BOOLEAN :
           /\ configure(env) # "nil" \/ dbFails
           /\ life' = [life EXCEPT !.main = "Aborted", !.env = env]
    /\ UNCHANGED <<events, status, accepted, call, now, procs, http, authVars, sigs, kills, tables, clientVars>>

StartTLS ==
    /\ life.main = "StartTLS"
    /\ life' = [life EXCEPT !.main = "Notify", !.state = "Serving", !.listen = "starting"]
    /\ UNCHANGED <<events, status, accepted, call, now, procs, http, authVars, sigs, kills, tables, clientVars>>

\* ListenAndServeTLS of the goroutine of StartTLS: it serves, it fails on the
\* certificate or the address, or it finds the server shut down already
ListenAndServeTLS ==
    /\ Running
    /\ life.listen = "starting"
    /\ \E l \in IF life.inShutdown THEN {"closed"} ELSE {"serving", "failed"} :
           life' = [life EXCEPT !.listen = l]
    /\ UNCHANGED <<events, status, accepted, call, now, procs, http, authVars, sigs, kills, tables, clientVars>>

Notify ==
    /\ life.main = "Notify"
    /\ life' = [life EXCEPT !.main = "Go", !.notified = TRUE]
    /\ UNCHANGED <<events, status, accepted, call, now, procs, http, authVars, sigs, kills, tables, clientVars>>

\* wg.Add(1), go func(), wg.Wait()
GoWait ==
    /\ life.main = "Go"
    /\ life' = [life EXCEPT !.main = "Wait", !.waiter = "recv"]
    /\ UNCHANGED <<events, status, accepted, call, now, procs, http, authVars, sigs, kills, tables, clientVars>>

\* a send that does not block: the value is dropped when the buffer is full
notifySend(ch, sig) == IF Len(ch) < SigsCapacity THEN Append(ch, sig) ELSE ch

\* the process receives SIGINT or SIGTERM after signal.Notify
OSSignal ==
    /\ Running
    /\ life.notified
    /\ life.signals < MaxSignals
    /\ \E sig \in {SIGINT, SIGTERM} : sigs' = notifySend(sigs, sig)
    /\ life' = [life EXCEPT !.signals = @ + 1]
    /\ UNCHANGED <<events, status, accepted, call, now, procs, http, authVars, kills, tables, clientVars>>

\* sig := <-sigs
Receive ==
    /\ Running
    /\ life.waiter = "recv"
    /\ Len(sigs) > 0
    /\ sigs' = Tail(sigs)
    /\ life' = [life EXCEPT !.waiter = "stop", !.consumed = @ + 1]
    /\ UNCHANGED <<events, status, accepted, call, now, procs, http, authVars, kills, tables, clientVars>>

\* Stop up to its call of Shutdown, which closes the listeners at once
StopEnter ==
    /\ Running
    /\ life.waiter = "stop"
    /\ life' = [life EXCEPT !.waiter = "shutdown", !.state = "Draining", !.stops = @ + 1,
                            !.inShutdown = TRUE, !.waited = 0,
                            !.listen = IF @ = "serving" THEN "closed" ELSE @]
    /\ UNCHANGED <<events, status, accepted, call, now, procs, http, authVars, sigs, kills, tables, clientVars>>

\* the connections Shutdown waits for: the requests still in their handler
Active(ks) == {k \in KillIds : ks[k].pc = "sleep"}

shutdownWaitsForever(l, ks) ==
    IF Active(ks) = {} THEN {"nil"} ELSE {}

\* the results Shutdown can return with now
shutdownReturns(l, ks) ==
    (IF Active(ks) = {} THEN {"nil"} ELSE {})
        \cup (IF l.waited >= ShutdownTimeout THEN {"context deadline exceeded"} ELSE {})

waiterLoops(l) == "recv"

\* the goroutine of main after Stop: Stop returns nil, so wg.Done
afterStop(l) == "done"

\* Shutdown returns, Stop logs its error and returns nil
StopReturn ==
    /\ Running
    /\ life.waiter = "shutdown"
    /\ \E err \in shutdownReturns(life, kills) :
           life' = [life EXCEPT !.waiter = afterStop(life), !.state = "Stopped",
                                !.stopErr = err]
    /\ UNCHANGED <<events, status, accepted, call, now, procs, http, authVars, sigs, kills, tables, clientVars>>

\* wg.Wait returns and main with it: the process ends with its goroutines
Return ==
    /\ life.main = "Wait"
    /\ life.waiter = "done"
    /\ life' = [life EXCEPT !.main = "Returned"]
    /\ UNCHANGED <<events, status, accepted, call, now, procs, http, authVars, sigs, kills, tables, clientVars>>

\* json.NewDecoder(r.Body).Decode(&request): an error is logged, request stays zero
decodeKillReq(body) == IF body.ok THEN body.payload ELSE ""

KillResp(success, message) ==
    [Type |-> KillRespName, Success |-> success, Message |-> message]

\* killserver up to its time.Sleep or its return: whether the payload was the
\* deadly package, and the response written
killserver(body, deadlyPackage) ==
    IF decodeKillReq(body) = deadlyPackage
    THEN [deadly |-> TRUE,
          w |-> send(WriteHeader(NewResponse, StatusOK),
                     KillResp(TRUE, "Server will shutdown in 2 seconds!"))]
    ELSE [deadly |-> FALSE,
          w |-> send(WriteHeader(NewResponse, StatusOK), KillResp(FALSE, "Package error!"))]

\* the request goroutine after killserver ran up to its sleep or its return
killAccepted(body, res) ==
    [pc |-> IF res.deadly THEN "sleep" ELSE "done", body |-> body, w |-> res.w,
     slept |-> 0, sent |-> FALSE]

\* a kill request is accepted and its handler runs up to its sleep or return
KillAcceptBy(k, body) ==
    /\ Accepting
    /\ kills[k].pc = "idle"
    /\ kills' = [kills EXCEPT
                    ![k] = killAccepted(body, killserver(body, life.deadlyPackage))]
    /\ UNCHANGED <<events, status, accepted, call, now, procs, http, authVars, life, sigs, tables, clientVars>>

KillAccept == \E k \in KillIds, body \in KillBodies : KillAcceptBy(k, body)

sleepNotAwaited(h) == TRUE

\* time.Sleep(GracefulShutdownTimeout) has returned
sleepOver(h) == h.slept >= GracefulShutdownTimeout

\* srv.sigs <- syscall.SIGINT: the send waits for room in the buffer
KillSend ==
    /\ Running
    /\ Len(sigs) < SigsCapacity
    /\ \E k \in KillIds :
           /\ kills[k].pc = "sleep"
           /\ sleepOver(kills[k])
           /\ kills' = [kills EXCEPT ![k].pc = "done", ![k].sent = TRUE]
    /\ sigs' = Append(sigs, SIGINT)
    /\ UNCHANGED <<events, status, accepted, call, now, procs, http, authVars, life, tables, clientVars>>

\* the timers after one more second
sleptSecond(h) ==
    IF h.pc = "sleep" /\ h.slept < GracefulShutdownTimeout
    THEN [h EXCEPT !.slept = @ + 1] ELSE h

waitedNever(l) == l

\* the context of Shutdown, made with ShutdownTimeout, after one more second
waitedSecond(l) ==
    IF l.waiter = "shutdown" /\ l.waited < ShutdownTimeout
    THEN [l EXCEPT !.waited = @ + 1] ELSE l

\* a second passes for the sleeping handlers and for the context of Shutdown
Second ==
    /\ Running
    /\ life' = waitedSecond(life)
    /\ kills' = [k \in KillIds |-> sleptSecond(kills[k])]
    /\ <<life', kills'>> # <<life, kills>>
    /\ UNCHANGED <<events, status, accepted, call, now, procs, http, authVars, sigs, tables, clientVars>>

\* a version request of the logged-in administrator reaches the listener; a
\* token was issued to them, so the token secret is set
ServeVersionAccepting ==
    /\ Accepting
    /\ life.env["GOCALENDAR_TOKEN_SECRET"] # ""
    /\ Served("version", [token |-> createJWT("admin", now), body |-> NoBody],
              serverVersionHandler([token |-> createJWT("admin", now), body |-> NoBody],
                                   events, status, now))

NextLife ==
    \/ Configure
    \/ ConfigurePanics
    \/ StartTLS
    \/ ListenAndServeTLS
    \/ Notify
    \/ GoWait
    \/ OSSignal
    \/ Receive
    \/ StopEnter
    \/ StopReturn
    \/ Return
    \/ KillAccept
    \/ KillSend
    \/ Second
    \/ ServeVersionAccepting

SpecLife == InitRepo /\ [][NextLife]_vars

\* the moves of the lifecycle
LifeOrder ==
    {<<"Unconfigured", "Configured">>, <<"Configured", "Serving">>,
     <<"Serving", "Draining">>, <<"Draining", "Stopped">>}

\* some request has been handed to a handler
RequestServed == http.handler # "none" \/ \E k \in KillIds : kills[k].pc # "idle"

LifecycleStep ==
    /\ life'.state # life.state => <<life.state, life'.state>> \in LifeOrder
    /\ life'.stops # life.stops => life.state = "Serving"

\* C16: the lifecycle only moves Unconfigured, Configured, Serving, Draining,
\* Stopped: no request is served before Configure has completed, Stop is only
\* entered from Serving, and from Draining on no connection is accepted again.
C16_LifecycleOrder ==
    /\ [](RequestServed => life.state \in {"Serving", "Draining", "Stopped"})
    /\ [](life.state \in {"Draining", "Stopped"} => ~Accepting)
    /\ [][LifecycleStep]_vars

\* the server was configured, served a kill request and a version request, and stopped
C16_Witness ==
    /\ life.state = "Stopped"
    /\ http.handler = "version"
    /\ \E k \in KillIds : kills[k].pc = "done"

\* the handler of request k waits at its send with nobody left to receive
Blocked(k) ==
    /\ kills[k].pc = "sleep"
    /\ sleepOver(kills[k])
    /\ Len(sigs) = SigsCapacity
    /\ life.waiter \in {"stop", "shutdown", "done"}

\* C17: for any number and interleaving of signals and correct kill requests,
\* exactly one trigger is taken from the channel and Stop is invoked exactly
\* once; a trigger that arrives while Draining or Stopped causes no second
\* Stop and no error: every handler finishes and Shutdown returns no error.
C17_IdempotentShutdown ==
    /\ life.consumed <= 1
    /\ life.stops <= 1
    /\ life.state \in {"Draining", "Stopped"} => life.consumed = 1 /\ life.stops = 1
    /\ life.stopErr = "nil"
    /\ \A k \in KillIds : ~Blocked(k)

\* the part of C17 the code keeps: one value is received, Stop is called once
C17_OneReceiveOneStop ==
    /\ life.consumed <= 1
    /\ life.stops <= 1
    /\ life.state \in {"Draining", "Stopped"} => life.consumed = 1 /\ life.stops = 1

\* the request carries the secret GOCALENDAR_DEADLY_PACKAGE was set to
CarriesSecret(h) ==
    h.body.ok /\ h.body.payload # "" /\ h.body.payload = life.deadlyPackage

\* the handler answered success=false and returned without a send on sigs
Refused(h) ==
    /\ h.pc = "done"
    /\ ~h.sent
    /\ h.w = [code |-> StatusOK, body |-> <<KillResp(FALSE, "Package error!")>>]

\* C18: a kill request starts a shutdown only if its payload equals the
\* configured secret; every other request (wrong payload, empty payload,
\* undecodable body) is answered success=false and puts nothing on the channel.
C18_KillSwitchAuthentication ==
    \A k \in KillIds :
        kills[k].pc # "idle" /\ ~CarriesSecret(kills[k]) => Refused(kills[k])

\* the part of C18 the code keeps: with the secret set, only it is accepted
C18_WithSecretSet ==
    life.deadlyPackage # "" =>
        \A k \in KillIds :
            kills[k].pc # "idle" /\ ~CarriesSecret(kills[k]) => Refused(kills[k])

(***************************************************************************)
(* SpecLifeFair: the Go scheduler runs every goroutine that can run, and   *)
(* time passes: each step of main, of its receiving goroutine, of the      *)
(* listener and of a handler past its sleep is taken if it stays enabled.  *)
(* Signals and requests come from outside and need not come at all.        *)
(***************************************************************************)
Scheduled ==
    /\ WF_vars(StartTLS)
    /\ WF_vars(ListenAndServeTLS)
    /\ WF_vars(Notify)
    /\ WF_vars(GoWait)
    /\ WF_vars(Receive)
    /\ WF_vars(StopEnter)
    /\ WF_vars(StopReturn)
    /\ WF_vars(Return)
    /\ WF_vars(KillSend)
    /\ WF_vars(Second)

SpecLifeFair == SpecLife /\ Scheduled

\* a signal was delivered to the process, or a kill request was answered success=true
Triggered == life.signals > 0 \/ \E k \in KillIds : kills[k].pc = "sleep"

ShutDown ==
    /\ life.stops = 1
    /\ ~Accepting
    /\ life.state = "Stopped"
    /\ life.main = "Returned"

\* C19: after a delivered SIGINT or SIGTERM, or a kill request answered with
\* success=true, Stop is eventually invoked, the server eventually stops
\* accepting connections and reaches Stopped, and main eventually returns.
C19_ShutdownLiveness == Triggered ~> ShutDown

\* main has returned after a signal and a kill request's send
C19_Witness ==
    /\ ShutDown
    /\ life.signals > 0
    /\ \E k \in KillIds : kills[k].sent

SuccessWritten(h) ==
    h.w = [code |-> StatusOK,
           body |-> <<KillResp(TRUE, "Server will shutdown in 2 seconds!")>>]

\* a step in which handlers send on sigs, and any step of a handler
KillStep ==
    /\ \A k \in KillIds :
           kills'[k].sent /\ ~kills[k].sent =>
               /\ SuccessWritten(kills[k])
               /\ kills[k].slept >= GracefulShutdownTimeout
    /\ kills' # kills => life'.stops = life.stops /\ life'.state = life.state

\* C20: on a correct kill request the handler first writes the success
\* response, then waits GracefulShutdownTimeout and only then puts the signal
\* on the channel; no step of a handler executes Stop, which is entered only
\* after a trigger was put on the channel.
C20_ResponsePrecedesShutdown ==
    /\ [](life.stops > 0 => life.signals > 0 \/ \E k \in KillIds : kills[k].sent)
    /\ [][KillStep]_vars

\* a kill request alone has shut the server down
C20_Witness ==
    /\ life.state = "Stopped"
    /\ life.signals = 0
    /\ \E k \in KillIds : kills[k].sent /\ SuccessWritten(kills[k])

\* C21: after Stop has returned the repository's database handle has been
\* closed with Close, and it is closed only after Shutdown has finished.
C21_StopReleasesRepository ==
    /\ life.state = "Stopped" => ~life.dbOpen
    /\ ~life.dbOpen => life.state \in {"Unconfigured", "Stopped"}

\* C22: once Stop is invoked it returns, with a nil error, even if handlers of
\* requests in flight never complete: the wait ends with the shutdown timeout.
C22_StopTerminates ==
    life.waiter = "shutdown" ~> (life.waiter = "done" /\ life.state = "Stopped")

\* Stop has returned although a handler is still waiting at its send
C22_Witness ==
    /\ life.waiter = "done"
    /\ life.stopErr = "context deadline exceeded"
    /\ \E k \in KillIds : Blocked(k)

Required == EnvNames

Started == life.state \in {"Serving", "Draining", "Stopped"}

\* C23: if the listen host, the listen port, the admin username, the admin
\* password hash, the token secret or the kill-switch secret is absent or
\* empty, Configure aborts the process and the server never reaches Serving.
C23_MissingConfigurationFatal ==
    (\E n \in Required : life.env[n] = "") => ~Started /\ life.main \in {"Configure", "Aborted"}

\* the part of C23 the code keeps: the four variables Configure checks
C23_CheckedConfigurationFatal ==
    (\E n \in Required \ {"GOCALENDAR_DEADLY_PACKAGE", "GOCALENDAR_TOKEN_SECRET"} :
         life.main # "Configure" /\ life.env[n] = "")
        => ~Started /\ life.main = "Aborted"

\* C24: if ListenAndServeTLS returns an error other than ErrServerClosed the
\* process terminates; it does not stay alive, serving no request and waiting
\* for a shutdown trigger.
C24_BindFailureFatal ==
    ~(life.listen = "failed" /\ life.main = "Wait" /\ life.waiter = "recv")

IsDelete == call.op = "DeleteEvent"

\* no row with the UUID of the call remains, every other row is as before
Removed ==
    /\ RowsByUUID(events, call.arg.UUID) = {}
    /\ events = call.pre.events \ RowsByUUID(call.pre.events, call.arg.UUID)

\* C25: DeleteEvent(e) returns true exactly when a row with e's UUID existed
\* and was removed, and false with no error when there was none; afterwards
\* no row with that UUID remains and all other rows are unchanged.
C25_DeleteReportsRemoval ==
    IsDelete =>
        /\ call.err = "nil"
        /\ call.ok <=> RowsByUUID(call.pre.events, call.arg.UUID) # {}
        /\ Removed

\* the part of C25 the code keeps: the rows of the UUID are removed, no others
C25_DeleteRemoves == IsDelete => call.err = "nil" /\ Removed

\* the status rows the last call appended
Appended == Len(status) - Len(call.pre.status)

\* C26: the status table is an append-only audit trail with one row per
\* mutation: a call that changes the events table (first insert, update,
\* delete of an existing row) appends exactly one status row, a call that
\* changes no event appends none, and no status row is updated or removed.
C26_OneStatusRowPerMutation ==
    /\ IsPrefix(call.pre.status, status)
    /\ call.op # "Migrate" =>
           Appended = IF events # call.pre.events THEN 1 ELSE 0

\* the part of C26 the code keeps: rows are only appended, inserts and
\* updates that change a row append one row
C26_AppendOnly ==
    /\ IsPrefix(call.pre.status, status)
    /\ IsInsert /\ events # call.pre.events => Appended = 1

(***************************************************************************)
(* SpecRepo: the repository NewSQLiteRepository returns on a new database. *)
(* Migrate creates the tables one statement after the other and can fail   *)
(* at each of them; the other operations are called once the tables exist. *)
(***************************************************************************)
RepoCall(op, ret, err) ==
    [op |-> op, arg |-> NoEvent, range |-> NoRange, ret |-> ret, rets |-> <<>>,
     ok |-> err = "nil", err |-> err, sql |-> <<>>, only |-> "mixed", pre |-> Pre]

CallMigrateFrom ==
    \E fail \in MigrateFailures :
        /\ Len(status) < MaxStatus
        /\ tables' = Migrate(tables, status, now, fail).tables
        /\ status' = Migrate(tables, status, now, fail).status
        /\ call' = RepoCall("Migrate", NoEvent, Migrate(tables, status, now, fail).err)
        /\ UNCHANGED <<events, accepted, now, procs, http, authVars, lifeVars, clientVars>>

CallGetStatus ==
    /\ call' = RepoCall("GetStatus", GetStatusFrom(tables, status),
                        GetStatusFrom(tables, status).err)
    /\ UNCHANGED <<events, status, accepted, now, procs, http, authVars, lifeVars, tables, clientVars>>

CallInsertBase == tables = AllTables /\ InsertEventCalled(Base("u1"))

CallDeleteBase == tables = AllTables /\ events # {} /\ CallDeleteEvent

\* AddUser of the administrator, as Configure calls it
CallAddAdmin ==
    /\ tables = AllTables
    /\ Len(users) < MaxUsers
    /\ \E c \in ReadyCalls :
           /\ users' = AddUser(users, c.user, c.password, TRUE).users
           /\ call' = RepoCall("AddUser", NoEvent, AddUser(users, c.user, c.password, TRUE).err)
    /\ UNCHANGED <<events, status, accepted, now, procs, http, issued, lifeVars, tables, clientVars>>

NextRepo ==
    \/ CallMigrateFrom
    \/ CallGetStatus
    \/ CallInsertBase
    \/ CallDeleteBase
    \/ CallAddAdmin

SpecRepo == InitRepo /\ [][NextRepo]_vars

IsGetStatus == call.op = "GetStatus"

LatestRowReturned ==
    /\ call.err = "nil"
    /\ call.ret.Success
    /\ call.ret.Timestamp = status[Len(status)].timestamp
    /\ call.ret.Version = status[Len(status)].version

\* C27: GetStatus returns the timestamp and version of the most recently
\* appended status row with a success status, and a failure (success=false
\* or a non-nil error) when the status table is empty or cannot be read.
C27_GetStatus ==
    IsGetStatus =>
        IF "status" \in tables /\ status # <<>>
        THEN LatestRowReturned
        ELSE ~call.ret.Success \/ call.err # "nil"

\* the part of C27 the code keeps: the latest row, and the unreadable table
C27_LatestRowOrUnreadable ==
    IsGetStatus =>
        /\ "status" \in tables /\ status # <<>> => LatestRowReturned
        /\ "status" \notin tables => ~call.ret.Success /\ call.err # "nil"

\* the last call was a Migrate, without an error, of a migrated repository
Remigrated ==
    /\ call.op = "Migrate"
    /\ call.err = "nil"
    /\ call.pre.tables = AllTables
    /\ call.pre.status # <<>>

\* C28: Migrate on a repository that has already been migrated returns no
\* error and leaves the persisted state unchanged: the same events rows, the
\* same credential rows and the same status rows as before the call.
C28_MigrateIdempotent ==
    Remigrated =>
        /\ events = call.pre.events
        /\ users = call.pre.users
        /\ status = call.pre.status

\* the part of C28 the code keeps: tables, events and credentials stay
C28_MigrateKeepsRows ==
    Remigrated =>
        /\ tables = call.pre.tables
        /\ events = call.pre.events
        /\ users = call.pre.users
        /\ IsPrefix(call.pre.status, status)

(***************************************************************************)
(* SpecWire: the server is configured and started, and serves requests on  *)
(* every route.  The handlers that read a token are modelled with the      *)
(* token secret set.                                                       *)
(***************************************************************************)
Keyed == Accepting /\ life.env["GOCALENDAR_TOKEN_SECRET"] # ""

WireLogin == Keyed /\ ServeLogin

WireVersion == Keyed /\ ServeVersion

WireInsertEvent == Keyed /\ ServeInsertEvent

WireGetEventCheckSum == Keyed /\ ServeGetEventCheckSum

WireGetEventsWithinTimeRange == Keyed /\ ServeGetEventsWithinTimeRange

WireGetStatus == Keyed /\ ServeGetStatus

\* one client of the kill endpoint
WireKill == \E body \in KillBodies : KillAcceptBy("k1", body)

NextWire ==
    \/ Configure
    \/ ConfigurePanics
    \/ StartTLS
    \/ ListenAndServeTLS
    \/ WireLogin
    \/ WireVersion
    \/ WireInsertEvent
    \/ WireGetEventCheckSum
    \/ WireGetEventsWithinTimeRange
    \/ WireGetStatus
    \/ WireKill
    \/ KillSend
    \/ Second

SpecWire == InitRepo /\ [][NextWire]_vars

\* the row Configure stored: the configured name with the configured hash
ConfiguredUser ==
    [username |-> life.env["GOCALENDAR_ADMIN_USERNAME"],
     password |-> hashOfText(life.env["GOCALENDAR_ADMIN_HASH"])]

\* a request was served in the step
WireStep == http' # http \/ kills' # kills

\* C29: after Configure has completed the users table holds exactly one row,
\* the configured admin username with the configured hash stored verbatim, and
\* no request (login, insert, checksum, range query, status, version, kill)
\* adds, changes or removes a credential row.
C29_SingleCredential ==
    /\ [](life.main \notin {"Configure", "Aborted"} => users = <<ConfiguredUser>>)
    /\ [][WireStep => users' = users]_vars

\* the administrator has logged in, an event is stored and a kill request was served
C29_Witness ==
    /\ life.state = "Serving"
    /\ users = <<ConfiguredUser>>
    /\ http.handler = "login"
    /\ TokensWritten(http.w) # {}
    /\ events # {}
    /\ kills["k1"].pc # "idle"

(***************************************************************************)
(* SpecCodec: dateTimeToUnix is applied to a calendar moment with fields   *)
(* in range, then unixToDateTime to its result.                            *)
(***************************************************************************)
\* the days before, on and after the transitions of 2024, a leap day, the
\* turn of a year
CodecDays ==
    {<<2024, 3, 30>>, <<2024, 3, 31>>, <<2024, 4, 1>>, <<2024, 10, 26>>, <<2024, 10, 27>>,
     <<2024, 2, 29>>, <<2023, 12, 31>>, <<2025, 1, 1>>, <<2025, 3, 30>>, <<2025, 10, 26>>}

CodecHours == {0, 1, 2, 3, 4, 12, 23}

CodecMinutes == {0, 30, 59}

CodecMoments ==
    {DT(DateTimeStructName, d[1], d[2], d[3], h, mi) :
        d \in CodecDays, h \in CodecHours, mi \in CodecMinutes}

CodecCall(op, d, unix, ret) ==
    [op |-> op, arg |-> d, range |-> <<unix, 0>>, ret |-> ret, rets |-> <<>>,
     ok |-> TRUE, err |-> "nil", sql |-> <<>>, only |-> "mixed", pre |-> Pre]

CallDateTimeToUnix ==
    /\ \E d \in CodecMoments :
           call' = CodecCall("dateTimeToUnix", d,
                             dateUnix(d.Year, d.Month, d.Day, d.Hour, d.Minute), NoEvent)
    /\ UNCHANGED <<events, status, accepted, now, procs, http, authVars, lifeVars, tables, clientVars>>

CallUnixToDateTime ==
    /\ call.op = "dateTimeToUnix"
    /\ call' = CodecCall("unixToDateTime", call.arg, call.range[1], unixDate(call.range[1]))
    /\ UNCHANGED <<events, status, accepted, now, procs, http, authVars, lifeVars, tables, clientVars>>

NextCodec == CallDateTimeToUnix \/ CallUnixToDateTime

SpecCodec == Init /\ [][NextCodec]_vars

\* the moment is on the wall clock of Europe/Warsaw at some instant
OnTheClock(d) ==
    \E off \in {CET, CEST} :
        lookup(absSeconds(d.Year, d.Month, d.Day, d.Hour, d.Minute) - off).offset = off

SameFields(a, b) ==
    /\ a.Year = b.Year
    /\ a.Month = b.Month
    /\ a.Day = b.Day
    /\ a.Hour = b.Hour
    /\ a.Minute = b.Minute

Decoded == call.op = "unixToDateTime"

SkippedHourMovesOn ==
    Decoded /\ ~OnTheClock(call.arg) =>
        SameFields(call.ret, [call.arg EXCEPT !.Hour = @ + 1])

-----------------------------------------------------------------------------
(***************************************************************************)
(* SpecSum: a client inserts events and asks for checksums; sums keeps,    *)
(* per UUID, the digest last answered since the stored data of that UUID   *)
(* last changed.                                                           *)
(***************************************************************************)
SumTokens == {NoToken, createJWT("admin", T0)}

\* u1 as sent by the application, edited, and as the XML import encodes it
SumPayloads ==
    {Base("u1"), [Base("u1") EXCEPT !.Title = "Retro"],
     [Base("u1") EXCEPT !.Start = DT("datetime", 2024, 2, 13, 9, 0)], Base("u2")}

SumInsertBodies == {[ok |-> TRUE, event |-> e] : e \in SumPayloads}

\* the checksum endpoint answered the request with a digest and success
SumAnswer(res) ==
    /\ Len(res.w.body) = 1
    /\ res.w.body[1].Type = GetEventCheckSumRespName
    /\ res.w.body[1].Success

SumInsertEvent ==
    \E tok \in SumTokens, b \in SumInsertBodies :
        LET req == [token |-> tok, body |-> b]
            res == insertEventHandler(req, events, status, now)
        IN /\ Responded("insertEvent", req, res)
           /\ sums' = [u \in UUIDs |->
                          IF RowsByUUID(res.events, u) # RowsByUUID(events, u) THEN NoSum
                          ELSE IF sums[u] # NoSum /\ u = b.event.UUID /\ res.repo # <<>>
                          THEN [sums[u] EXCEPT !.resubmitted = TRUE]
                          ELSE sums[u]]
           /\ UNCHANGED <<accepted, call, now, procs, authVars, lifeVars, tables, parser>>

SumGetEventCheckSum ==
    \E tok \in SumTokens, b \in ChecksumBodies :
        LET req == [token |-> tok, body |-> b]
            res == getEventCheckSum(req, events, status, now)
        IN /\ Responded("getEventCheckSum", req, res)
           /\ sums' = IF SumAnswer(res) /\ b.ok /\ RowsByUUID(events, b.uuid) # {}
                      THEN [sums EXCEPT ![b.uuid] =
                               [Type |-> "sum", Sum |-> res.w.body[1].Sum,
                                seen |-> IF sums[b.uuid] = NoSum THEN "once" ELSE "again",
                                resubmitted |-> sums[b.uuid] # NoSum
                                                /\ sums[b.uuid].resubmitted]]
                      ELSE sums
           /\ UNCHANGED <<accepted, call, now, procs, authVars, lifeVars, tables, parser>>

NextSum == Tick \/ SumInsertEvent \/ SumGetEventCheckSum

SpecSum == Init /\ [][NextSum]_vars

\* the step is a checksum request with a valid token for the stored UUID u
ChecksumStep(u) ==
    /\ http' # http
    /\ http'.handler = "getEventCheckSum"
    /\ http'.tokenErr = "nil"
    /\ http'.body = [ok |-> TRUE, uuid |-> u]
    /\ RowsByUUID(events, u) # {}

\* C31: for a stored UUID the checksum endpoint answers with a digest of 64
\* hexadecimal digits, and with the digest of its last answer for that UUID
\* when no InsertEvent changed the stored data since (an unchanged
\* resubmission of the event included).
C31_ChecksumStability ==
    [][\A u \in UUIDs :
          ChecksumStep(u) =>
              /\ Len(http'.w.body) = 1
              /\ http'.w.body[1].Success
              /\ http'.w.body[1].Sum.digits = 64
              /\ sums[u] # NoSum => http'.w.body[1].Sum = sums[u].Sum]_vars

\* u1 was answered twice with one digest, with a resubmission in between
C31_Witness ==
    /\ http.handler = "getEventCheckSum"
    /\ http.body = [ok |-> TRUE, uuid |-> "u1"]
    /\ sums["u1"] # NoSum
    /\ sums["u1"].seen = "again"
    /\ sums["u1"].resubmitted
    /\ http.w.body[1].Sum = sums["u1"].Sum
    /\ http.w.body[1].Sum.digits = 64

-----------------------------------------------------------------------------
(* Claims about malformed bodies on the configured server (SpecWire) *)

BodyTakingEndpoints ==
    {"insertEvent", "getEventCheckSum", "getEventsWithinTimeRange", "login"}

\* the response says success, or hands out a token
SaysSuccess(w) ==
    \E i \in DOMAIN w.body :
        \/ w.body[i].Type = TokenMsgName
        \/ w.body[i].Type \notin {TextName, TokenMsgName} /\ w.body[i].Success

\* the response is one failure with a message
SaysFailure(w) ==
    /\ Len(w.body) = 1
    /\ w.body[1].Message # ""
    /\ w.body[1].Type # TextName => ~w.body[1].Success

\* the last request passed the token check, if any, and its body did not decode
MalformedRequest(H) ==
    /\ http.handler \in H
    /\ http.tokenErr = "nil"
    /\ ~http.body.ok
    /\ http.handler = "login" => http.body.method = "POST"

MalformedRejected(H) ==
    MalformedRequest(H) => /\ http.repo = <<>>
                           /\ SaysFailure(http.w)
                           /\ ~SaysSuccess(http.w)

MalformedKill(k) == kills[k].pc # "idle" /\ ~kills[k].body.ok

\* C32: when the JSON body of a request to insert, checksum, range query,
\* login or kill cannot be decoded, the handler answers with one failure
\* response with a message, calls no repository operation and reports no
\* success.
C32_MalformedBodyRejected ==
    /\ MalformedRejected(BodyTakingEndpoints)
    /\ \A k \in KillIds :
           MalformedKill(k) => SaysFailure(kills[k].w) /\ ~SaysSuccess(kills[k].w)

\* what the code keeps: insert, range query and login reject the body before
\* the repository, and kill refuses it when a deadly package is configured
C32_RejectedWhereChecked ==
    /\ MalformedRejected(BodyTakingEndpoints \ {"getEventCheckSum"})
    /\ \A k \in KillIds :
           MalformedKill(k) /\ life.deadlyPackage # "" =>
               SaysFailure(kills[k].w) /\ ~SaysSuccess(kills[k].w)

-----------------------------------------------------------------------------
(* Claims about the answers of the range query and of the checksum (SpecHTTP) *)

\* the last request was a range query with a valid token and a decodable body
RangeQueried ==
    /\ http.handler = "getEventsWithinTimeRange"
    /\ http.tokenErr = "nil"
    /\ http.body.ok

\* the one envelope written carries the rows GetEventsByTimeRange returns for
\* the encoded bounds
RangeEventsReturned ==
    /\ Len(http.w.body) = 1
    /\ http.w.body[1].Type = GetEventsRespName
    /\ http.w.body[1].Events =
           GetEventsByTimeRange(events, dateTimeToUnix(http.body.start),
                                dateTimeToUnix(http.body.end))

\* C33: a request to getEventsWithinTimeRange with a valid token and a
\* decodable body whose query succeeds is answered with status.success = true
\* and exactly the events GetEventsByTimeRange returns for the encoded bounds.
C33_RangeQuerySuccess ==
    RangeQueried => RangeEventsReturned /\ http.w.body[1].Success

\* what the code answers: the events, under success = false and status 200
C33_RangeQueryEvents ==
    RangeQueried => /\ RangeEventsReturned
                    /\ ~http.w.body[1].Success
                    /\ http.w.code = StatusOK

\* the last request asked, with a valid token, for the checksum of a UUID
\* that no row has
UnknownLookup ==
    /\ http.handler = "getEventCheckSum"
    /\ http.tokenErr = "nil"
    /\ http.body.ok
    /\ RowsByUUID(events, http.body.uuid) = {}

\* C34: GetEventByUUID of a UUID that is not stored returns a placeholder
\* with an empty UUID and no error, and the checksum endpoint does not answer
\* the lookup of such a UUID with status.success = true and a digest.
C34_UnknownUUIDNotFound ==
    UnknownLookup =>
        /\ GetEventByUUID(events, http.body.uuid).UUID = ""
        /\ \A i \in DOMAIN http.w.body : ~http.w.body[i].Success

\* what the code answers: success and the digest of the placeholder
C34_PlaceholderDigest ==
    UnknownLookup =>
        /\ GetEventByUUID(events, http.body.uuid).UUID = ""
        /\ Len(http.w.body) = 1
        /\ http.w.body[1].Success
        /\ http.w.body[1].Sum = Sprintfx(Sha256(GetEventByUUID({}, "")))

-----------------------------------------------------------------------------
(***************************************************************************)
(* SpecFault: InsertEvent under the two conditions of its environment that *)
(* the code has a branch for: time.LoadLocation("Europe/Warsaw") failing   *)
(* (zone = FALSE) and the INSERT into status failing (fails = TRUE).       *)
(***************************************************************************)
ZoneError == "unknown time zone Europe/Warsaw"

StatusError == "INSERT status failed"

ZeroMoment == DT(DateTimeStructName, 0, 0, 0, 0, 0)

\* time.Unix(0, 0) in Europe/Warsaw: CET, no summer time in 1970
EpochMoment == DT(DateTimeStructName, 1970, 1, 1, 1, 0)

\* dateTimeToUnix with its error: 0 and the error when the zone is not loaded
dateTimeToUnixIn(d, zone) ==
    IF zone THEN [unix |-> dateTimeToUnix(d), err |-> "nil"]
    ELSE [unix |-> 0, err |-> ZoneError]

\* unixToDateTime with its error: the zero DateTime when the zone is not loaded
unixToDateTimeIn(t, zone) ==
    IF ~zone THEN [date |-> ZeroMoment, err |-> ZoneError]
    ELSE IF t = 0 THEN [date |-> EpochMoment, err |-> "nil"]
    ELSE [date |-> unixToDateTime(t), err |-> "nil"]

\* start, _ := dateTimeToUnix(&e.Start); end, _ := dateTimeToUnix(&e.End)
ColumnsIn(e, zone) ==
    [version |-> e.Version, uuid |-> e.UUID, title |-> e.Title,
     start |-> dateTimeToUnixIn(e.Start, zone).unix,
     end |-> dateTimeToUnixIn(e.End, zone).unix,
     address |-> e.Address, info |-> e.Info, reminder |-> e.Reminder,
     done |-> Btoi(e.Done), important |-> Btoi(e.Important), urgent |-> Btoi(e.Urgent),
     source |-> e.Source]

\* e.Start, _ = unixToDateTime(&t1); e.End, _ = unixToDateTime(&t2)
convertRawEventRecordIn(r, zone) ==
    [Type |-> EventDataStructName, ID |-> r.id, Version |-> r.version, UUID |-> r.uuid,
     Title |-> r.title, Start |-> unixToDateTimeIn(r.start, zone).date,
     End |-> unixToDateTimeIn(r.end, zone).date,
     Address |-> r.address, Info |-> r.info, Reminder |-> r.reminder,
     Done |-> Itob(r.done), Important |-> Itob(r.important), Urgent |-> Itob(r.urgent),
     Source |-> r.source]

updateStatusOr(st, t, fails) ==
    IF fails THEN [status |-> st, err |-> StatusError]
    ELSE [status |-> updateStatus(st, t), err |-> "nil"]

\* the events statement is executed, then updateStatus; nil is returned with
\* its error
insertEventOr(ev, st, t, e, zone, fails) ==
    LET id == NewRowID(ev)
        up == updateStatusOr(st, t, fails)
    IN [events |-> ev \cup {Row(id, ColumnsIn(e, zone))},
        status |-> up.status,
        ret |-> IF up.err = "nil" THEN [e EXCEPT !.ID = id] ELSE NoEvent,
        err |-> up.err,
        sql |-> <<"INSERT events", "INSERT status">>]

updateEventOr(ev, st, t, e, zone, fails) ==
    LET up == updateStatusOr(st, t, fails) IN
    [events |-> {IF r.uuid = e.UUID THEN Row(r.id, ColumnsIn(e, zone)) ELSE r : r \in ev},
     status |-> up.status,
     ret |-> IF up.err = "nil" THEN e ELSE NoEvent,
     err |-> up.err,
     sql |-> <<"UPDATE events", "INSERT status">>]

InsertEventOr(ev, st, t, e, zone, fails) ==
    LET rows == RowsByUUID(ev, e.UUID) IN
    IF rows # {}
    THEN LET dbEvent == convertRawEventRecordIn(FirstRow(rows), zone)
             e1 == [e EXCEPT !.ID = dbEvent.ID]
         IN IF Sha256(dbEvent) = Sha256(e1)
            THEN [events |-> ev, status |-> st, ret |-> e1, err |-> "nil",
                  sql |-> <<"SELECT events">>]
            ELSE AfterSelect(updateEventOr(ev, st, t, e1, zone, fails))
    ELSE AfterSelect(insertEventOr(ev, st, t, e, zone, fails))

\* u1 as the application sends it, edited, as the XML import encodes it; u2
FaultPayloads == SumPayloads

\* the call before was an InsertEvent whose status append failed
StatusAppendFailed == call.op = "InsertEvent" /\ call.err = StatusError

CallInsertEventOr ==
    \E e \in FaultPayloads, zone \in BOOLEAN, fails \in BOOLEAN :
        LET res == InsertEventOr(events, status, now, e, zone, fails) IN
        /\ WithinBounds(res.events, res.status)
        /\ events' = res.events
        /\ status' = res.status
        /\ call' = [op |-> "InsertEvent", arg |-> e, range |-> NoRange, ret |-> res.ret,
                    rets |-> <<>>, ok |-> TRUE, err |-> res.err, sql |-> res.sql,
                    only |-> "mixed", pre |-> Pre, zone |-> zone, fails |-> fails,
                    prev |-> [arg |-> call.arg, failed |-> StatusAppendFailed,
                              zone |-> StatusAppendFailed /\ call.zone]]
        /\ UNCHANGED <<accepted, now, procs, http, authVars, lifeVars, tables, clientVars>>

NextFault == CallInsertEventOr \/ CallDeleteEvent

SpecFault == Init /\ [][NextFault]_vars

\* the last call was InsertEvent with the environment chosen
InsertedOr == call.op = "InsertEvent" /\ "zone" \in DOMAIN call

\* C35: when dateTimeToUnix fails for the start or end moment (the time zone
\* database is not available), InsertEvent returns an error and stores or
\* overwrites no events row.
C35_EncodingFailureSurfaced ==
    InsertedOr /\ ~call.zone => call.err # "nil" /\ events = call.pre.events

\* what the code does without the zone: the error of dateTimeToUnix is
\* dropped and the row is written with start = 0 and end = 0
C35_ZeroTimestampsStored ==
    InsertedOr /\ ~call.zone /\ ~call.fails =>
        /\ call.err = "nil"
        /\ \A r \in RowsByUUID(events, call.arg.UUID) : r.start = 0 /\ r.end = 0
        /\ RowsByUUID(events, call.arg.UUID) # {}

\* the last call failed at its status append, after its events statement
AppendFailed == InsertedOr /\ call.err = StatusError

\* the last call repeated the payload of a call that failed at its status append
Repeated ==
    /\ InsertedOr
    /\ call.prev.failed
    /\ call.prev.arg = call.arg

NoWrite ==
    /\ call.err = "nil"
    /\ call.sql = <<"SELECT events">>
    /\ events = call.pre.events
    /\ status = call.pre.status

\* C36: when the status append fails after the events row was inserted or
\* updated, InsertEvent returns an error and the events row stays with the
\* new data; a following InsertEvent of the same payload finds the row,
\* finds the hashes equal and returns without error and without any write.
C36_NoRollback ==
    /\ AppendFailed =>
           /\ \E r \in events : r = Row(r.id, ColumnsIn(call.arg, call.zone))
           /\ status = call.pre.status
    /\ Repeated => NoWrite

\* the same for the payloads that read back as they were sent, with the zone
\* loaded in both calls
C36_NoRollbackReadBack ==
    /\ AppendFailed =>
           /\ \E r \in events : r = Row(r.id, ColumnsIn(call.arg, call.zone))
           /\ status = call.pre.status
    /\ Repeated /\ call.zone /\ call.prev.zone /\ call.arg.Start.Type = DateTimeStructName
           => NoWrite

-----------------------------------------------------------------------------
(* Claims about the handlers of kill requests at their send (SpecLifeFair) *)

\* the handler of request k has answered success and has its send before it
Sending(k) == kills[k].pc = "sleep"

\* C37: for any number of correct kill requests and any interleaving with OS
\* signals and with the one receive of main, the send of every killserver
\* handler on the channel of capacity 1 eventually completes: no handler
\* stays blocked while the server drains.
C37_EverySendCompletes == \A k \in KillIds : Sending(k) ~> kills[k].sent

\* what the code keeps: the send completes unless the buffer is full with
\* nobody left to receive, or the process has ended
C37_SendCompletesOrBlocks ==
    \A k \in KillIds : Sending(k) ~> (kills[k].sent \/ Blocked(k) \/ ~Running)

-----------------------------------------------------------------------------
(***************************************************************************)
(* SpecPaths: every handler on every path, the paths taken when the query  *)
(* of GetStatus fails and when createJWT returns an error included.        *)
(***************************************************************************)
DatabaseError == "sql: database is closed"

SigningError == "key is invalid"

\* r.db.Query fails: GetStatus returns the error
GetStatusOr(st, fails) ==
    IF fails THEN [Timestamp |-> 0, Version |-> "", Success |-> FALSE, err |-> DatabaseError]
    ELSE GetStatus(st)

getStatusOr(req, ev, st, t, fails) == getStatusOn(GetStatusOr(st, fails), ev, st, t)

\* loginHandler after AuthenticateUser; jwtErr is the error of createJWT,
\* returned with the token ""
loginAuthenticatedOr(req, auth, t, jwtErr) ==
    IF jwtErr = "nil" THEN loginAuthenticated(req, auth, t)
    ELSE IF ~auth.ok \/ auth.err # "nil" THEN loginAuthenticated(req, auth, t)
    ELSE [w |-> Write(Fprintf(WriteHeader(NewResponse, StatusOK), jwtErr),
                      [Type |-> TokenMsgName, Token |-> Garbage]),
          repo |-> <<"AuthenticateUser">>]

loginHandlerOr(req, us, t, jwtErr) ==
    IF req.body.method # "POST" \/ ~req.body.ok THEN loginHandler(req, us, t)
    ELSE loginAuthenticatedOr(req,
             AuthenticateUser(us, req.body.username, req.body.password), t, jwtErr)

PathGetStatus ==
    \E tok \in TokensOnWire, fails \in BOOLEAN :
        LET req == [token |-> tok, body |-> NoBody]
            res == getStatusOr(req, events, status, now, fails)
        IN /\ events' = res.events
           /\ status' = res.status
           /\ http' = [handler |-> "status", token |-> tok, body |-> NoBody, time |-> now,
                       tokenErr |-> validateJWT(tok, now), w |-> res.w, repo |-> res.repo,
                       fault |-> fails]
           /\ UNCHANGED <<accepted, call, now, procs, authVars, lifeVars, tables, clientVars>>

PathLogin ==
    \E b \in LoginBodies, jwtErr \in {"nil", SigningError} :
        LET res == loginHandlerOr([body |-> b], users, now, jwtErr) IN
        /\ Cardinality(issued \cup TokensWritten(res.w)) <= MaxIssued
        /\ issued' = issued \cup TokensWritten(res.w)
        /\ http' = [handler |-> "login", token |-> NoToken, body |-> b, time |-> now,
                    tokenErr |-> "nil", w |-> res.w, repo |-> res.repo,
                    fault |-> jwtErr # "nil" /\ Len(res.w.body) > 1]
        /\ UNCHANGED <<events, status, accepted, call, now, procs, users, lifeVars, tables,
                       clientVars>>

NextPaths ==
    \/ CallAddAdmin
    \/ PathLogin
    \/ PathGetStatus
    \/ ServeVersion
    \/ ServeInsertEvent
    \/ ServeGetEventCheckSum
    \/ ServeGetEventsWithinTimeRange

SpecPaths == Init /\ [][NextPaths]_vars

\* a request was served on a path where the repository or createJWT failed
FaultPath == "fault" \in DOMAIN http /\ http.fault

\* C38: on every path through every handler, the repository-error path of the
\* status handler and the token-creation-error path of the login handler
\* included, exactly one response body is written for the request.
C38_OneResponsePerRequest == http.handler # "none" => Len(http.w.body) = 1

\* what the code keeps: one body on the other paths, two on those two paths,
\* where login writes a token message after the error text
C38_OneResponseUnlessFault ==
    http.handler # "none" =>
        IF FaultPath
        THEN /\ Len(http.w.body) = 2
             /\ http.handler = "login" => /\ http.w.body[1].Type = TextName
                                          /\ http.w.body[2].Type = TokenMsgName
             /\ http.handler = "status" => http.w.body[1] = http.w.body[2]
        ELSE Len(http.w.body) = 1

-----------------------------------------------------------------------------
(***************************************************************************)
(* SpecUpload: the XML import (parse_events.go) posts the events of its    *)
(* source files to a running server, while time passes.  The server runs   *)
(* insertEvent as handlers.go has it first, or the copy that follows it in *)
(* the file, whose answer to a rejected token has status 401.              *)
(***************************************************************************)
\* xmlEventToEventDataConverter: no __type__ on the event, "datetime" on its
\* moments, source "XML"
xmlEventToEventDataConverter(e) ==
    [e EXCEPT !.Type = "", !.Start = DT("datetime", 2024, 2, 13, 9, 0),
              !.End = DT("datetime", 2024, 2, 13, 9, 0), !.Source = "XML"]

\* the events of the source files, in the order they are read
XMLEvents ==
    <<xmlEventToEventDataConverter(Base("u1")),
      xmlEventToEventDataConverter(Base("u2")),
      xmlEventToEventDataConverter([Base("u1") EXCEPT !.Title = "Retro"])>>

MessageName == "message"

\* the second insertEvent of handlers.go: validateJWT first, 401 and the
\* message when it fails, 200 after InsertEvent
legacyInserted(req, res) ==
    [w |-> Write(WriteHeader(NewResponse, StatusOK),
                 [Type |-> AddEventRespName,
                  Success |-> res.ret.UUID = req.body.event.UUID, Message |-> ""]),
     events |-> res.events, status |-> res.status, repo |-> <<"InsertEvent">>]

insertEventLegacy(req, ev, st, t) ==
    IF validateJWT(req.token, t) # "nil"
    THEN [w |-> Write(WriteHeader(NewResponse, StatusUnauthorized),
                      [Type |-> MessageName, Success |-> FALSE,
                       Message |-> validateJWT(req.token, t)]),
          events |-> ev, status |-> st, repo |-> <<>>]
    ELSE legacyInserted(req, InsertEvent(ev, st, t, req.body.event))

\* getToken: log in with GOCALENDAR_ADMIN_USERNAME and GOCALENDAR_ADMIN_PASSWORD;
\* a body that is no TokenMsg leaves token_msg.Token ""
getToken(us, t) ==
    LET res == loginHandler([body |-> [ok |-> TRUE, method |-> "POST",
                                       username |-> "admin", password |-> "pw1"]], us, t)
    IN IF TokensWritten(res.w) = {} THEN Garbage
       ELSE CHOOSE tok \in TokensWritten(res.w) : TRUE

\* postEvent: one request; on 401 a new token is fetched; the loop over retry
\* runs once and sends nothing
postEvent(p, code, us, t) ==
    [p EXCEPT !.codes = Append(@, code),
              !.token = IF code = StatusUnauthorized THEN getToken(us, t) ELSE @]

\* UploadStoredEvents opens the source files; the server is one of the two builds
ReadFiles ==
    /\ parser.pc = "read"
    /\ users # <<>>
    /\ \E legacy \in BOOLEAN : parser' = [parser EXCEPT !.pc = "post", !.legacy = legacy]
    /\ UNCHANGED <<events, status, accepted, call, now, procs, http, authVars, lifeVars,
                   tables, sums>>

\* the request of postEvent for the next event
PostRequest ==
    [token |-> parser.token, body |-> [ok |-> TRUE, event |-> XMLEvents[parser.next]]]

\* the build of the server answers the request
Answer(req) ==
    IF parser.legacy THEN insertEventLegacy(req, events, status, now)
    ELSE insertEventHandler(req, events, status, now)

\* the loop of UploadStoredEvents moves on
Advance(posted, inserted) ==
    /\ parser' = [posted EXCEPT !.next = @ + 1,
                                !.accepted = Append(@, inserted),
                                !.pc = IF parser.next = Len(XMLEvents)
                                       THEN "done" ELSE "post"]
    /\ issued' = IF posted.token \in {parser.token, Garbage} THEN issued
                 ELSE issued \cup {posted.token}

Posted(req, res) ==
    /\ Responded("insertEvent", req, res)
    /\ Advance(postEvent(parser, res.w.code, users, now), res.repo # <<>>)

\* UploadStoredEvents posts the next event
PostEvent ==
    /\ parser.pc = "post"
    /\ Posted(PostRequest, Answer(PostRequest))
    /\ UNCHANGED <<accepted, call, now, procs, users, lifeVars, tables, sums>>

NextUpload == CallAddAdmin \/ Tick \/ ReadFiles \/ PostEvent

SpecUpload == Init /\ [][NextUpload]_vars

\* UploadStoredEvents has returned
Uploaded == parser.pc = "done"

\* the insert endpoint accepted event i of the source files: its request
\* reached InsertEvent
AcceptedByServer(i) == i \in DOMAIN parser.accepted /\ parser.accepted[i]

\* C39: no event of the import is lost to token expiry: an event whose request
\* is answered with 401 is submitted again with a new token, so that with a
\* running server every event of the source files has been accepted by the
\* insert endpoint when UploadStoredEvents returns.
C39_NoEventLost ==
    Uploaded => \A i \in DOMAIN XMLEvents : AcceptedByServer(i)

\* what the code does: every event is posted once, whatever the answer; the
\* first goes out with the token "" and is never stored by its own request
C39_PostedOnce ==
    /\ Len(parser.codes) = parser.next - 1
    /\ parser.next > 1 /\ parser.legacy => parser.codes[1] = StatusUnauthorized
    /\ ~AcceptedByServer(1)

====
